---------------------------- MODULE Spec2Model ----------------------------
(***************************************************************************)
(* A model of the unwarpvr video filter (libavfilter/vf_unwarpvr.c):       *)
(* option validation (init_dict), the Oculus profile lookup                *)
(* (read_ovr_profile), the lens distortion functions, the construction of  *)
(* the inverse-mapping cache (config_props), the per-frame resampler       *)
(* (filter_frame) and the teardown (uninit).                               *)
(*                                                                         *)
(* The C code computes in IEEE-754 binary32.  The model carries a float as *)
(* a triple <<s, m, e>>: s is the sign bit, and a finite non-zero value    *)
(* has 2^23 <= m < 2^24 and stands for (-1)^s * m * 2^e.  m = 0 marks the  *)
(* special values: e = 0 is zero, e = 1 is infinity, e = 2 is NaN.  Every  *)
(* operation rounds to nearest, ties to even, as the hardware does.        *)
(* Subnormals are not modelled (the exponent is unbounded below); results  *)
(* above the binary32 range become infinity.                               *)
(***************************************************************************)
EXTENDS Integers, Sequences, FiniteSets, TLC

-----------------------------------------------------------------------------
(* binary32 arithmetic *)

Zero == <<0, 0, 0>>
Inf(s) == <<s, 0, 1>>
NaN == <<0, 0, 2>>

IsNaN(x) == x[2] = 0 /\ x[3] = 2
IsInf(x) == x[2] = 0 /\ x[3] = 1
IsZero(x) == x[2] = 0 /\ x[3] = 0

Pow2(n) == 2 ^ n

\* the number of bits of m, 1 <= m < 2^31
BitLen(m) ==
    IF m >= 16777216
    THEN IF m >= 268435456
         THEN (IF m >= 1073741824 THEN 31 ELSE IF m >= 536870912 THEN 30 ELSE 29)
         ELSE IF m >= 67108864
              THEN (IF m >= 134217728 THEN 28 ELSE 27)
              ELSE (IF m >= 33554432 THEN 26 ELSE 25)
    ELSE IF m >= 8388608 THEN 24
    ELSE IF m >= 65536
         THEN IF m >= 1048576
              THEN (IF m >= 4194304 THEN 23 ELSE IF m >= 2097152 THEN 22 ELSE 21)
              ELSE (IF m >= 524288 THEN 20 ELSE IF m >= 262144 THEN 19
                    ELSE IF m >= 131072 THEN 18 ELSE 17)
         ELSE IF m >= 256
              THEN IF m >= 4096
                   THEN (IF m >= 32768 THEN 16 ELSE IF m >= 16384 THEN 15
                         ELSE IF m >= 8192 THEN 14 ELSE 13)
                   ELSE (IF m >= 2048 THEN 12 ELSE IF m >= 1024 THEN 11
                         ELSE IF m >= 512 THEN 10 ELSE 9)
              ELSE IF m >= 16
                   THEN (IF m >= 128 THEN 8 ELSE IF m >= 64 THEN 7
                         ELSE IF m >= 32 THEN 6 ELSE 5)
                   ELSE (IF m >= 8 THEN 4 ELSE IF m >= 4 THEN 3
                         ELSE IF m >= 2 THEN 2 ELSE 1)

\* The binary32 nearest to (-1)^s * (m + f) * 2^e, where 0 <= m < 2^31 and
\* 0 <= f < 1 with f > 0 exactly when st: round to nearest, ties to even.
\* q is a significand after rounding: the carry of the rounding into bit 24,
\* and the overflow to infinity
Carry(s, q, e) ==
    IF q = 16777216
    THEN (IF e + 1 > 104 THEN Inf(s) ELSE <<s, 8388608, e + 1>>)
    ELSE IF e > 104 THEN Inf(s) ELSE <<s, q, e>>

\* (m + f) / p rounded to nearest, ties to even; p is a power of two
RoundQuotient(m, p, st) ==
    IF 2 * (m % p) > p \/ (2 * (m % p) = p /\ (st \/ (m \div p) % 2 = 1))
    THEN (m \div p) + 1
    ELSE m \div p

\* m has n bits
Normalize(s, m, e, st, n) ==
    IF n <= 24 THEN <<s, m * Pow2(24 - n), e - (24 - n)>>
    ELSE Carry(s, RoundQuotient(m, Pow2(n - 24), st), e + (n - 24))

RoundPack(s, m, e, st) ==
    IF m = 0 THEN <<s, 0, 0>> ELSE Normalize(s, m, e, st, BitLen(m))

FNeg(x) == IF IsNaN(x) THEN NaN ELSE <<1 - x[1], x[2], x[3]>>

\* |a| >= |b| > 0, both finite
\* A and Bq are the significands of a and b aligned with three guard bits, st
\* says that bits of b were shifted out
AddAligned(a, b, A, Bq, st) ==
    IF a[1] # b[1] /\ A = Bq /\ ~st THEN Zero
    ELSE RoundPack(a[1],
                   IF a[1] = b[1] THEN A + Bq ELSE A - Bq - (IF st THEN 1 ELSE 0),
                   a[3] - 3, st)

AddOrdered(a, b) ==
    IF a[3] - b[3] > 26 THEN a
    ELSE AddAligned(a, b, a[2] * 8, (b[2] * 8) \div Pow2(a[3] - b[3]),
                    (b[2] * 8) % Pow2(a[3] - b[3]) # 0)

FAdd(a, b) ==
    IF a[2] # 0 /\ b[2] # 0
    THEN (IF a[3] > b[3] \/ (a[3] = b[3] /\ a[2] >= b[2]) THEN AddOrdered(a, b)
          ELSE AddOrdered(b, a))
    ELSE IF IsNaN(a) \/ IsNaN(b) THEN NaN
    ELSE IF IsInf(a) THEN (IF IsInf(b) /\ a[1] # b[1] THEN NaN ELSE a)
    ELSE IF IsInf(b) THEN b
    ELSE IF IsZero(a) THEN (IF IsZero(b) /\ a[1] # b[1] THEN Zero ELSE b)
    ELSE a

FSub(a, b) == FAdd(a, FNeg(b))

\* hh * 2^24 + mid * 2^12 + low, a product below 2^48 with low < 2^12
MulParts(s, e, hh, mid, low) ==
    RoundPack(s, (hh + (mid \div 4096)) * 64 + (((mid % 4096) * 4096 + low) \div 262144),
              e, ((mid % 4096) * 4096 + low) % 262144 # 0)

\* the product of the significands a1 * 2^12 + a0 and b1 * 2^12 + b0
MulLimbs(s, e, a1, a0, b1, b0) ==
    MulParts(s, e, a1 * b1, a1 * b0 + a0 * b1 + ((a0 * b0) \div 4096), (a0 * b0) % 4096)

FMul(a, b) ==
    IF a[2] # 0 /\ b[2] # 0
    THEN MulLimbs((a[1] + b[1]) % 2, a[3] + b[3] + 18,
                  a[2] \div 4096, a[2] % 4096, b[2] \div 4096, b[2] % 4096)
    ELSE IF IsNaN(a) \/ IsNaN(b) THEN NaN
    ELSE IF IsInf(a) THEN (IF IsZero(b) THEN NaN ELSE Inf((a[1] + b[1]) % 2))
    ELSE IF IsInf(b) THEN (IF IsZero(a) THEN NaN ELSE Inf((a[1] + b[1]) % 2))
    ELSE <<(a[1] + b[1]) % 2, 0, 0>>

FDiv(a, b) ==
    IF a[2] # 0 /\ b[2] # 0
    THEN LET q0 == a[2] \div b[2]
             r0 == a[2] % b[2]
             q1 == (r0 * 128) \div b[2]
             r1 == (r0 * 128) % b[2]
             q2 == (r1 * 128) \div b[2]
             r2 == (r1 * 128) % b[2]
             q3 == (r2 * 128) \div b[2]
             r3 == (r2 * 128) % b[2]
             q4 == (r3 * 128) \div b[2]
             r4 == (r3 * 128) % b[2]
         IN RoundPack((a[1] + b[1]) % 2,
                      q0 * 268435456 + q1 * 2097152 + q2 * 16384 + q3 * 128 + q4,
                      a[3] - b[3] - 28, r4 # 0)
    ELSE IF IsNaN(a) \/ IsNaN(b) THEN NaN
    ELSE IF IsInf(a) THEN (IF IsInf(b) THEN NaN ELSE Inf((a[1] + b[1]) % 2))
    ELSE IF IsInf(b) THEN <<(a[1] + b[1]) % 2, 0, 0>>
    ELSE IF IsZero(b) THEN (IF IsZero(a) THEN NaN ELSE Inf((a[1] + b[1]) % 2))
    ELSE <<(a[1] + b[1]) % 2, 0, 0>>

\* bit pair number i (0 the topmost) of the 54-bit integer m * 2^28, m < 2^26
RECURSIVE SqrtStep(_, _, _, _)
SqrtStep(m, i, root, rem) ==
    IF i = 27 THEN <<root, rem>>
    ELSE LET pair == IF i < 13 THEN (m \div Pow2(24 - 2 * i)) % 4 ELSE 0
             r4 == rem * 4 + pair
             trial == 4 * root + 1
         IN IF r4 >= trial THEN SqrtStep(m, i + 1, 2 * root + 1, r4 - trial)
            ELSE SqrtStep(m, i + 1, 2 * root, r4)

\* rr is the root and the remainder that SqrtStep returns for an even e
SqrtPack(e, rr) == RoundPack(0, rr[1], (e \div 2) - 14, rr[2] # 0)

FSqrt(x) ==
    IF x[2] # 0 /\ x[1] = 0
    THEN (IF x[3] % 2 # 0 THEN SqrtPack(x[3] - 1, SqrtStep(2 * x[2], 0, 0, 0))
          ELSE SqrtPack(x[3], SqrtStep(x[2], 0, 0, 0)))
    ELSE IF IsNaN(x) THEN NaN
    ELSE IF IsZero(x) THEN x
    ELSE IF x[1] = 1 THEN NaN
    ELSE x

FromInt(n) == RoundPack(IF n < 0 THEN 1 ELSE 0, IF n < 0 THEN -n ELSE n, 0, FALSE)

\* a < b; false when either is NaN
\* |a| < |b|, neither a NaN
MagLt(a, b) ==
    IF IsZero(b) \/ IsInf(a) THEN FALSE
    ELSE IF IsZero(a) \/ IsInf(b) THEN TRUE
    ELSE a[3] < b[3] \/ (a[3] = b[3] /\ a[2] < b[2])

FLt(a, b) ==
    IF IsNaN(a) \/ IsNaN(b) THEN FALSE
    ELSE IF IsZero(a) /\ IsZero(b) THEN FALSE
    ELSE IF a[1] # b[1] THEN a[1] = 1
    ELSE IF a[1] = 0 THEN MagLt(a, b)
    ELSE MagLt(b, a)

FGt(a, b) == FLt(b, a)

fmaxf(a, b) == IF IsNaN(a) THEN b ELSE IF IsNaN(b) THEN a ELSE IF FLt(a, b) THEN b ELSE a
fminf(a, b) == IF IsNaN(a) THEN b ELSE IF IsNaN(b) THEN a ELSE IF FLt(b, a) THEN b ELSE a

floorf(x) ==
    IF x[2] = 0 \/ x[3] >= 0 THEN x
    ELSE IF x[3] <= -24 THEN FromInt(IF x[1] = 0 THEN 0 ELSE -1)
    ELSE FromInt(IF x[1] = 0 THEN x[2] \div Pow2(-x[3])
                 ELSE IF x[2] % Pow2(-x[3]) = 0 THEN -(x[2] \div Pow2(-x[3]))
                 ELSE -((x[2] \div Pow2(-x[3])) + 1))

\* a decimal literal n / 10^k written with the f suffix: n < 2^24, so the
\* correctly rounded quotient is the binary32 the compiler stores
RECURSIVE Pow10(_)
Pow10(k) == IF k = 0 THEN 1 ELSE 10 * Pow10(k - 1)
Dec(n, k) == FDiv(FromInt(n), FromInt(Pow10(k)))

-----------------------------------------------------------------------------
(* the distortion functions *)

NumSegments == 11

\* the three values of enum DistortionEqnType
Distortion_Poly4 == "Poly4"
Distortion_RecipPoly4 == "RecipPoly4"
Distortion_CatmullRom10 == "CatmullRom10"

One == FromInt(1)
Two == FromInt(2)
Half == Dec(5, 1)

\* (int)scaledValFloor, of a value that fmaxf/fminf have clamped to 0..10
ClampedToInt(x) == IF IsZero(x) THEN 0 ELSE x[2] \div Pow2(-x[3])

\* res, from the end points p0 and p1, the tangents m0 and m1, t and omt
SplineBlend(p0, m0, p1, m1, t, omt) ==
    FAdd(FMul(FMul(FAdd(FMul(p0, FAdd(One, FMul(Two, t))), FMul(m0, t)), omt), omt),
         FMul(FMul(FSub(FMul(p1, FAdd(One, FMul(Two, omt))), FMul(m1, omt)), t), t))

\* p1 and m1 of the switch; its last case takes them from p0 and m0
SplineEnds(K, k, p0, m0, t) ==
    SplineBlend(p0, m0,
                IF k = 0 THEN K[2]
                ELSE IF k = NumSegments - 2 THEN K[NumSegments]
                ELSE IF k = NumSegments - 1 THEN FAdd(p0, m0)
                ELSE K[k + 2],
                IF k = 0 THEN FMul(Half, FSub(K[3], K[1]))
                ELSE IF k = NumSegments - 2 THEN FSub(K[NumSegments], K[NumSegments - 1])
                ELSE IF k = NumSegments - 1 THEN m0
                ELSE FMul(Half, FSub(K[k + 3], K[k + 1])),
                t, FSub(One, t))

\* p0 and m0 of the switch
SplineStart(K, k, t) ==
    SplineEnds(K, k,
               IF k = 0 THEN One
               ELSE IF k = NumSegments - 2 THEN K[NumSegments - 1]
               ELSE IF k = NumSegments - 1 THEN K[NumSegments]
               ELSE K[k + 1],
               IF k = 0 THEN FSub(K[2], K[1])
               ELSE IF k = NumSegments - 2
                    THEN FMul(Half, FSub(K[NumSegments], K[NumSegments - 1]))
               ELSE IF k = NumSegments - 1 THEN FSub(K[NumSegments], K[NumSegments - 1])
               ELSE FMul(Half, FSub(K[k + 2], K[k])),
               t)

\* the spline evaluated in the segment of the value's floor, without the clamp
\* of the upper end to the segment of the final knot
SplineFlooredUpTo9(K, scaledVal, scaledValFloor) ==
    SplineStart(K, ClampedToInt(fminf(FromInt(NumSegments - 2), scaledValFloor)),
                FSub(scaledVal, fminf(FromInt(NumSegments - 2), scaledValFloor)))

\* t and k, from scaledVal and scaledValFloor
SplineFloored(K, scaledVal, scaledValFloor) ==
    SplineStart(K, ClampedToInt(scaledValFloor), FSub(scaledVal, scaledValFloor))

\* K is a sequence of 11 floats; the C index i is K[i + 1]
EvalCatmullRom10Spline(K, scaledVal) ==
    CHOOSE res \in {SplineFloored(K, scaledVal, scaledValFloor) :
                       scaledValFloor \in {fmaxf(Zero, fminf(FromInt(NumSegments - 1),
                                                             floorf(scaledVal)))}} : TRUE

Poly4(K, rsq) ==
    FAdd(K[1], FMul(rsq, FAdd(K[2], FMul(rsq, FAdd(K[3], FMul(rsq, K[4]))))))

\* the function without the reciprocal of the RecipPoly4 case
DistortionFnScaleWithoutRecip(Eqn, K, MaxR, CA0, CA1, rsq) ==
    FMul(IF Eqn = Distortion_Poly4 \/ Eqn = Distortion_RecipPoly4 THEN Poly4(K, rsq)
         ELSE EvalCatmullRom10Spline(
                  K, FDiv(FMul(FromInt(NumSegments - 1), rsq), FMul(MaxR, MaxR))),
         FAdd(FAdd(One, CA0), FMul(CA1, rsq)))

DistortionFnScaleRadiusSquared(Eqn, K, MaxR, CA0, CA1, rsq) ==
    FMul(IF Eqn = Distortion_Poly4 THEN Poly4(K, rsq)
         ELSE IF Eqn = Distortion_RecipPoly4 THEN FDiv(One, Poly4(K, rsq))
         ELSE EvalCatmullRom10Spline(
                  K, FDiv(FMul(FromInt(NumSegments - 1), rsq), FMul(MaxR, MaxR))),
         FAdd(FAdd(One, CA0), FMul(CA1, rsq)))

\* a loop test without the floor of high_guess
NoFloor == Zero

\* a tolerance a hundred times the one of the loop
CoarseTolerance == Dec(1, 2)

\* The loop test compares floats with the double constants 0.0001 and 0.00001.
\* The binary32 nearest to each lies below it and no binary32 lies between, so
\* f > 0.0001 in double is f > 0.0001f in binary32.
RelTolerance == Dec(1, 4)
HighFloor == Dec(1, 5)

\* the initial high_guess of the older copy of the search
HighGuessOfUnwarp == Dec(15, 1)

\* the initial high_guess
HighGuess == FromInt(10)

BisectContinues(low_guess, high_guess) ==
    /\ FGt(FDiv(FSub(high_guess, low_guess), low_guess), RelTolerance)
    /\ FGt(high_guess, HighFloor)

\* mid_guess, which is also the value returned after the loop
BisectMid(low_guess, high_guess) == FDiv(FAdd(low_guess, high_guess), Two)

\* low_guess and high_guess after one pass of the loop, in which scale is the
\* distortion at mid_guess
BisectNext(rsq, low_guess, high_guess, mid_guess, scale) ==
    IF FLt(rsq, FMul(FMul(scale, scale), mid_guess)) THEN <<low_guess, mid_guess>>
    ELSE <<mid_guess, high_guess>>

\* guess is <<low_guess, high_guess>>
RECURSIVE Bisect(_, _, _, _, _, _, _)
Bisect(Eqn, K, MaxR, CA0, CA1, rsq, guess) ==
    IF ~BisectContinues(guess[1], guess[2]) THEN BisectMid(guess[1], guess[2])
    ELSE Bisect(Eqn, K, MaxR, CA0, CA1, rsq,
                BisectNext(rsq, guess[1], guess[2], BisectMid(guess[1], guess[2]),
                           DistortionFnScaleRadiusSquared(
                               Eqn, K, MaxR, CA0, CA1,
                               BisectMid(guess[1], guess[2]))))

DistortionFnScaleRadiusSquaredInv(Eqn, K, MaxR, CA0, CA1, rsq) ==
    Bisect(Eqn, K, MaxR, CA0, CA1, rsq, <<Zero, HighGuess>>)

-----------------------------------------------------------------------------
(* the device profiles of config_props *)

NUM_EYES == 2
NUM_CHANNELS == 3

\* -1, the cache entry of a destination byte that has no source pixel
Sentinel == -1

\* (float)n for the int n
F(n) == FromInt(n)

\* An array element the code never initialises (memmove copies the 4 floats of
\* K_DK1 and then reads past the end of that array).  Poly4 reads K[0..3] only.
Indeterminate == NaN

K_DK1_025c ==
    <<One, Dec(212, 3), Dec(24, 2), Zero,
      Indeterminate, Indeterminate, Indeterminate, Indeterminate,
      Indeterminate, Indeterminate, Indeterminate>>
K_DK1_042 ==
    <<One, Dec(106505, 5), Dec(114725, 5), Dec(12705, 4), Dec(148, 2), Dec(187, 2),
      Dec(2534, 3), Dec(36, 1), Dec(51, 1), Dec(74, 1), F(11)>>
K_DK2 ==
    <<Dec(1003, 3), Dec(102, 2), Dec(1042, 3), Dec(1066, 3), Dec(1094, 3),
      Dec(1126, 3), Dec(1162, 3), Dec(1203, 3), Dec(125, 2), Dec(131, 2), Dec(138, 2)>>

ChromaticAberrationDK1_025c ==
    <<FSub(Dec(996, 3), One), FNeg(Dec(4, 3)), FSub(Dec(1014, 3), One), Zero>>
ChromaticAberrationDK1_042 == <<FNeg(Dec(6, 3)), Zero, Dec(14, 3), Zero>>
ChromaticAberrationMin == <<FNeg(Dec(112, 4)), FNeg(Dec(15, 3)), Dec(187, 4), Dec(15, 3)>>
ChromaticAberrationMax == <<FNeg(Dec(15, 3)), FNeg(Dec(2, 2)), Dec(25, 3), Dec(2, 2)>>

\* ChromaticAberration[i] of RiftDK2, interpolated by the eye relief dial
ChromaticAberrationDK2(eye_relief_dial) ==
    [i \in 1..4 |->
        FAdd(ChromaticAberrationMin[i],
             FMul(FDiv(F(eye_relief_dial), F(10)),
                  FSub(ChromaticAberrationMax[i], ChromaticAberrationMin[i])))]

ScreenWidthDK1 == Dec(14976, 5)

\* The constants config_props selects for a device and SDK version, or
\* [ok |-> FALSE] where it logs an error and returns EINVAL.
DeviceProfile(device, sdkversion, eye_relief_dial) ==
    IF device = "RiftDK1" THEN
        IF sdkversion = "0.2.5c" THEN
            [ok |-> TRUE, Eqn |-> Distortion_Poly4, K |-> K_DK1_025c, MaxR |-> One,
             ChromaticAberration |-> ChromaticAberrationDK1_025c,
             MetersPerTanAngleAtCenter |-> FMul(Dec(25, 2), ScreenWidthDK1),
             screenWidthMeters |-> ScreenWidthDK1,
             screenHeightMeters |-> FDiv(ScreenWidthDK1, FDiv(F(1280), F(800))),
             LensCenterXOffset |-> Dec(15197646, 8),
             DeviceResX |-> 1280, DeviceResY |-> 800]
        ELSE IF sdkversion = "0.4.2" THEN
            [ok |-> TRUE, Eqn |-> Distortion_CatmullRom10, K |-> K_DK1_042,
             MaxR |-> FSqrt(Dec(18, 1)),
             ChromaticAberration |-> ChromaticAberrationDK1_042,
             MetersPerTanAngleAtCenter |-> Dec(425, 4),
             screenWidthMeters |-> ScreenWidthDK1,
             screenHeightMeters |-> FDiv(ScreenWidthDK1, FDiv(F(1280), F(800))),
             LensCenterXOffset |-> Dec(15197646, 8),
             DeviceResX |-> 1280, DeviceResY |-> 800]
        ELSE [ok |-> FALSE]
    ELSE IF device = "RiftDK2" THEN
        [ok |-> TRUE, Eqn |-> Distortion_CatmullRom10, K |-> K_DK2, MaxR |-> One,
         ChromaticAberration |-> ChromaticAberrationDK2(eye_relief_dial),
         MetersPerTanAngleAtCenter |-> Dec(36, 3),
         screenWidthMeters |-> Dec(12576, 5),
         screenHeightMeters |-> Dec(7074, 5),
         LensCenterXOffset |-> FNeg(Dec(9860039, 9)),
         DeviceResX |-> 1920, DeviceResY |-> 1080]
    ELSE [ok |-> FALSE]

DevicePPDInCenterX(d) ==
    FMul(FDiv(d.MetersPerTanAngleAtCenter, d.screenWidthMeters), F(d.DeviceResX))
DevicePPDInCenterY(d) ==
    FMul(FDiv(d.MetersPerTanAngleAtCenter, d.screenHeightMeters), F(d.DeviceResY))

\* 53.1301f
DegPerUnit == Dec(531301, 4)

\* scale_in_width and scale_in_height as the ppd block leaves them
ScaleInAfterPpd(d, ppd, scale_in_width, scale_in_height) ==
    IF ~IsZero(ppd)
    THEN <<FMul(scale_in_width, FDiv(FMul(ppd, DegPerUnit), DevicePPDInCenterX(d))),
           FMul(scale_in_height, FDiv(FMul(ppd, DegPerUnit), DevicePPDInCenterY(d)))>>
    ELSE <<scale_in_width, scale_in_height>>

TanEyeAngleScaleX(d) ==
    FDiv(FMul(Dec(25, 2), d.screenWidthMeters), d.MetersPerTanAngleAtCenter)
TanEyeAngleScaleY(d) ==
    FDiv(FMul(Half, d.screenHeightMeters), d.MetersPerTanAngleAtCenter)

-----------------------------------------------------------------------------
(* the cache builder of config_props *)

INT_MAX == 2147483647
INT_MIN == -2147483647 - 1

\* The platforms the filter is built for.  They differ in what the conversion
\* of a float that no int can hold produces, which C leaves undefined.
Platforms == {"x86", "arm"}

\* (int)x.  A NaN, an infinity or a value outside the int range is undefined
\* behaviour: the x86 conversion instruction gives INT_MIN for all of them, the
\* ARM one gives 0 for a NaN and saturates the rest.
CastInt(platform, x) ==
    IF IsZero(x) THEN 0
    ELSE IF x[2] # 0 /\ x[3] <= -24 THEN 0
    ELSE IF x[2] # 0 /\ x[3] < 0
         THEN (IF x[1] = 1 THEN -(x[2] \div Pow2(-x[3])) ELSE x[2] \div Pow2(-x[3]))
    ELSE IF x[2] # 0 /\ x[3] <= 7
         THEN (IF x[1] = 1 THEN -(x[2] * Pow2(x[3])) ELSE x[2] * Pow2(x[3]))
    ELSE IF x = <<1, 8388608, 8>> THEN INT_MIN
    ELSE IF platform = "x86" THEN INT_MIN
    ELSE IF IsNaN(x) THEN 0
    ELSE IF x[1] = 1 THEN INT_MIN ELSE INT_MAX

\* The values the eye loop derives from the options before its pixel loops.
\* b is the build's input: the option values, the link geometry, the device
\* profile d, in_linesize and the platform.
one_eye_multiplier(b) == IF b.left_eye_only # 0 THEN 2 ELSE 1
in_width_per_eye(b) == IF b.mono_input # 0 THEN b.in_w ELSE b.in_w \div 2
\* the source eye of a stereo input, whatever mono_input says
in_eye_of_stereo(b, eye_count) == IF b.swap_eyes # 0 THEN 1 - eye_count ELSE eye_count
\* the source eye without the swap
in_eye_unswapped(b, eye_count) == IF b.mono_input # 0 THEN 0 ELSE eye_count
in_eye(b, eye_count) ==
    IF b.mono_input # 0 THEN 0
    ELSE IF b.swap_eyes # 0 THEN 1 - eye_count
    ELSE eye_count
\* the offset decided by the destination eye in both directions
lensCenterXOffsetOfOutEye(b, eye_count) ==
    IF eye_count # 0 THEN FNeg(b.d.LensCenterXOffset) ELSE b.d.LensCenterXOffset
lensCenterXOffsetEye(b, eye_count) ==
    IF (b.forward_warp = 0 /\ in_eye(b, eye_count) # 0)
         \/ (b.forward_warp # 0 /\ eye_count # 0)
    THEN FNeg(b.d.LensCenterXOffset) ELSE b.d.LensCenterXOffset

\* the columns of one eye without the doubling for a single eye
EyeColumnsOfHalf(b) == b.out_w \div 2

\* the number of destination columns one eye computes
EyeColumns(b) == (b.out_w \div 2) * one_eye_multiplier(b)

CA0(b, channel) ==
    IF channel = 0 THEN b.d.ChromaticAberration[1]
    ELSE IF channel = 1 THEN Zero ELSE b.d.ChromaticAberration[3]
CA1(b, channel) ==
    IF channel = 0 THEN b.d.ChromaticAberration[2]
    ELSE IF channel = 1 THEN Zero ELSE b.d.ChromaticAberration[4]

MinusOne == F(-1)

\* x and y of the reverse branch, from ndcx and ndcy and the channel's scale
ReverseSource(b, eye_count, ndcx, ndcy, scale) ==
    <<FMul(FDiv(FAdd(FMul(FAdd(FDiv(FMul(ndcx, scale), TanEyeAngleScaleX(b.d)),
                               lensCenterXOffsetEye(b, eye_count)),
                          b.scale_in_width),
                     One),
                Two),
           F(in_width_per_eye(b))),
      FMul(FDiv(FAdd(FMul(FDiv(FMul(ndcy, scale), TanEyeAngleScaleY(b.d)),
                          b.scale_in_height),
                     One),
                Two),
           F(b.in_h))>>

\* new_rsq[channel] and scale of the reverse branch
ReverseChannel(b, eye_count, channel, ndcx, ndcy, rsq) ==
    CHOOSE xy \in {ReverseSource(b, eye_count, ndcx, ndcy, scale) :
                      scale \in {FSqrt(FDiv(DistortionFnScaleRadiusSquaredInv(
                                                b.d.Eqn, b.d.K, b.d.MaxR, CA0(b, channel),
                                                CA1(b, channel), rsq),
                                            rsq))}} : TRUE

\* rsq of the reverse branch
ReversePixel(b, eye_count, channel, ndcx, ndcy) ==
    ReverseChannel(b, eye_count, channel, ndcx, ndcy,
                   FAdd(FMul(ndcx, ndcx), FMul(ndcy, ndcy)))

\* the reverse branch with ndcx and ndcy of a native-sized output, whatever the
\* output size is
ReverseXYOfNative(b, eye_count, i, j, channel) ==
    ReversePixel(
        b, eye_count, channel,
        FMul(FDiv(FMul(FAdd(MinusOne, FMul(Two, FDiv(F(j), F(EyeColumns(b))))),
                       F(one_eye_multiplier(b))),
                  b.scale_width),
             TanEyeAngleScaleX(b.d)),
        FMul(FDiv(FAdd(MinusOne, FMul(Two, FDiv(F(i), F(b.out_h)))),
                  b.scale_height),
             TanEyeAngleScaleY(b.d)))

\* <<x, y>> of the reverse (unwarp) branch for destination row i, column j of
\* the eye's range, and one colour channel: ndcx and ndcy
ReverseXY(b, eye_count, i, j, channel) ==
    ReversePixel(
        b, eye_count, channel,
        FMul(FMul(FDiv(FMul(FAdd(MinusOne, FMul(Two, FDiv(F(j), F(EyeColumns(b))))),
                            F(one_eye_multiplier(b))),
                       b.scale_width),
                  FDiv(F(b.out_w), F(b.d.DeviceResX))),
             TanEyeAngleScaleX(b.d)),
        FMul(FMul(FDiv(FAdd(MinusOne, FMul(Two, FDiv(F(i), F(b.out_h)))),
                       b.scale_height),
                  FDiv(F(b.out_h), F(b.d.DeviceResY))),
             TanEyeAngleScaleY(b.d)))

\* x and y of the forward branch, from the distorted tangents and the channel's
\* scale
ForwardSource(b, tanx_distorted, tany_distorted, scale) ==
    <<FAdd(FDiv(FMul(FDiv(FMul(FDiv(FMul(tanx_distorted, scale),
                                    TanEyeAngleScaleX(b.d)),
                               b.scale_in_width),
                          Two),
                     F(b.d.DeviceResX)),
                Two),
           FDiv(F(in_width_per_eye(b)), Two)),
      FAdd(FMul(FDiv(FMul(FDiv(FMul(tany_distorted, scale), TanEyeAngleScaleY(b.d)),
                          b.scale_in_height),
                     Two),
                F(b.d.DeviceResY)),
           FDiv(F(b.in_h), Two))>>

\* scale[channel] of the forward branch
ForwardChannel(b, channel, tanx_distorted, tany_distorted, rsq) ==
    ForwardSource(b, tanx_distorted, tany_distorted,
                  DistortionFnScaleRadiusSquared(
                      b.d.Eqn, b.d.K, b.d.MaxR, CA0(b, channel), CA1(b, channel), rsq))

\* rsq of the forward branch
ForwardPixel(b, channel, tanx_distorted, tany_distorted) ==
    ForwardChannel(b, channel, tanx_distorted, tany_distorted,
                   FAdd(FMul(tanx_distorted, tanx_distorted),
                        FMul(tany_distorted, tany_distorted)))

\* <<x, y>> of the forward warp branch: ndcx and ndcy times the tangent scales
ForwardXY(b, eye_count, i, j, channel) ==
    ForwardPixel(
        b, channel,
        FMul(FSub(FDiv(FMul(FAdd(MinusOne, FDiv(FMul(Two, F(j)), F(EyeColumns(b)))),
                            F(one_eye_multiplier(b))),
                       b.scale_width),
                  lensCenterXOffsetEye(b, eye_count)),
             TanEyeAngleScaleX(b.d)),
        FMul(FDiv(FAdd(MinusOne, FDiv(FMul(Two, F(i)), F(b.out_h))), b.scale_height),
             TanEyeAngleScaleY(b.d)))

\* srci = (int)y and srcj = (int)x
CastXY(platform, xy) == <<CastInt(platform, xy[2]), CastInt(platform, xy[1])>>

\* <<srci, srcj>>: the source row and column the builder computes
SourcePixel(b, eye_count, i, j, channel) ==
    CastXY(b.platform,
           IF b.forward_warp = 0 THEN ReverseXY(b, eye_count, i, j, channel)
           ELSE ForwardXY(b, eye_count, i, j, channel))

\* the bounds test without its upper limits
InSourceLowerOnly(b, srci, srcj) == srci >= 0 /\ srcj >= 0

\* the bounds test that guards the store into inv_cache
InSource(b, srci, srcj) ==
    srci >= 0 /\ srcj >= 0 /\ srci < b.in_h /\ srcj < in_width_per_eye(b)

\* the byte offset stored for source row srci, column srcj of source eye in_eye
SourceOffset(b, eye_count, srci, srcj, channel) ==
    srci * b.in_linesize
      + (in_eye(b, eye_count) * in_width_per_eye(b) + srcj) * NUM_CHANNELS + channel

\* an index that leaves out the eye's column offset: both eyes store into the
\* left half
output_idx_of_left_half(b, eye_count, i, j, channel) ==
    (i * b.out_w + j) * NUM_CHANNELS + channel

output_idx(b, eye_count, i, j, channel) ==
    (i * b.out_w + (eye_count * b.out_w) \div 2 + j) * NUM_CHANNELS + channel

\* the eyes the outer loop visits before its break
EyesBuilt(b) == IF b.left_eye_only # 0 THEN {0} ELSE 0..(NUM_EYES - 1)

\* The loop nest visits (eye_count, i, j, channel) in lexicographic order; step
\* n of it, counted from 0 within one eye, is this tuple.
PixelOfStep(b, n) ==
    [i |-> n \div (EyeColumns(b) * NUM_CHANNELS),
     j |-> (n \div NUM_CHANNELS) % EyeColumns(b),
     channel |-> n % NUM_CHANNELS]

StepsPerEye(b) == b.out_h * EyeColumns(b) * NUM_CHANNELS

\* the store of one pass of the channel loop, which the bounds test guards
CacheStore(b, eye_count, p, src, cache) ==
    IF InSource(b, src[1], src[2])
    THEN [cache EXCEPT ![output_idx(b, eye_count, p.i, p.j, p.channel) + 1] =
             SourceOffset(b, eye_count, src[1], src[2], p.channel)]
    ELSE cache

\* one pass of the channel loop, for the pixel and channel p
BuildStep(b, eye_count, p, cache) ==
    CacheStore(b, eye_count, p, SourcePixel(b, eye_count, p.i, p.j, p.channel), cache)

\* the j and channel loops of one row: steps n .. stop - 1 of the eye.  cache is
\* 1-indexed, the C index k is cache[k + 1].  DOMAIN cache is never empty: the
\* test makes TLC compute the table of the steps so far before it descends.
RECURSIVE BuildRow(_, _, _, _, _)
BuildRow(b, eye_count, n, stop, cache) ==
    IF n >= stop \/ DOMAIN cache = {} THEN cache
    ELSE BuildRow(b, eye_count, n + 1, stop,
                  BuildStep(b, eye_count, PixelOfStep(b, n), cache))

\* inv_cache after rows i .. of one eye's loops
RECURSIVE BuildEye(_, _, _, _)
BuildEye(b, eye_count, i, cache) ==
    IF i >= b.out_h \/ DOMAIN cache = {} THEN cache
    ELSE BuildEye(b, eye_count, i + 1,
                  BuildRow(b, eye_count, i * EyeColumns(b) * NUM_CHANNELS,
                           (i + 1) * EyeColumns(b) * NUM_CHANNELS, cache))

\* the table the first loop leaves: every entry the sentinel
SentinelTable(b) == [k \in 1..(b.out_h * b.out_w * NUM_CHANNELS) |-> Sentinel]

\* the eye loop from eye_count on, up to its break
RECURSIVE BuildEyes(_, _, _)
BuildEyes(b, eye_count, cache) ==
    IF eye_count \notin EyesBuilt(b) THEN cache
    ELSE BuildEyes(b, eye_count + 1, BuildEye(b, eye_count, 0, cache))

\* inv_cache as the eye loops leave it, from the table the first loop filled
BuildCacheFrom(b, table) == BuildEyes(b, 0, table)

(***************************************************************************)
(* the Oculus profile file and read_ovr_profile                            *)
(***************************************************************************)

\* a char* that is NULL, and a json_object_get that finds no such key
NULL == "NULL"

\* The JSON document at the profile path, as far as read_ovr_profile looks at
\* it.  exists: json_load_file returns a root.  An element of TaggedData has a
\* tags array of objects with optional Product and User strings, and a vals
\* object with an optional DefaultUser string and an optional EyeReliefDial,
\* whose kind is "absent", "integer" or "other".
Tag(product, user) == [is_object |-> TRUE, Product |-> product, User |-> user]
Element(tags, default_user, dial_kind, dial_value) ==
    [is_object |-> TRUE, tags_is_array |-> TRUE, tags |-> tags,
     vals_is_object |-> TRUE, DefaultUser |-> default_user,
     EyeReliefDial |-> [kind |-> dial_kind, value |-> dial_value]]
Document(elements) ==
    [exists |-> TRUE, root_is_object |-> TRUE, TaggedData_is_array |-> TRUE,
     TaggedData |-> elements]

\* the tags loop of the first pass over one element, from tag j on
RECURSIVE DefaultUserOfTags(_, _, _, _)
DefaultUserOfTags(element, selected_product, j, default_user) ==
    IF j > Len(element.tags) THEN [err |-> FALSE, default_user |-> default_user]
    ELSE IF ~element.tags[j].is_object
         THEN [err |-> TRUE, default_user |-> default_user]
    ELSE IF element.tags[j].Product = selected_product /\ element.DefaultUser # NULL
         THEN IF default_user = NULL
              THEN DefaultUserOfTags(element, selected_product, j + 1,
                                     element.DefaultUser)
              ELSE IF default_user # element.DefaultUser
                   THEN [err |-> TRUE, default_user |-> default_user]
                   ELSE DefaultUserOfTags(element, selected_product, j + 1,
                                          default_user)
    ELSE DefaultUserOfTags(element, selected_product, j + 1, default_user)

\* the first pass over TaggedData, from element i on: the default user of the
\* selected product
RECURSIVE FindDefaultUser(_, _, _, _)
FindDefaultUser(tagged_data, selected_product, i, default_user) ==
    IF i > Len(tagged_data) THEN [err |-> FALSE, default_user |-> default_user]
    ELSE IF ~tagged_data[i].is_object \/ ~tagged_data[i].tags_is_array
              \/ ~tagged_data[i].vals_is_object
         THEN [err |-> TRUE, default_user |-> default_user]
    ELSE LET r == DefaultUserOfTags(tagged_data[i], selected_product, 1,
                                    default_user)
         IN IF r.err THEN r
            ELSE FindDefaultUser(tagged_data, selected_product, i + 1,
                                 r.default_user)

\* matched_user && matched_product of one element; err: a tag is no object
MatchOfTags(element, selected_product, default_user) ==
    [err |-> \E j \in 1..Len(element.tags) : ~element.tags[j].is_object,
     matched |-> (\E j \in 1..Len(element.tags) :
                     element.tags[j].User = default_user)
                 /\ (\E j \in 1..Len(element.tags) :
                        element.tags[j].Product = selected_product)]

\* the second pass over TaggedData, from element i on: the EyeReliefDial of the
\* default user's profile
RECURSIVE FindUserProfile(_, _, _, _, _, _)
FindUserProfile(tagged_data, selected_product, default_user, i, eye_relief_dial, found_user_profile) ==
    IF i > Len(tagged_data)
    THEN [err |-> FALSE, eye_relief_dial |-> eye_relief_dial,
          found_user_profile |-> found_user_profile]
    ELSE IF ~tagged_data[i].is_object \/ ~tagged_data[i].tags_is_array
              \/ ~tagged_data[i].vals_is_object
              \/ MatchOfTags(tagged_data[i], selected_product, default_user).err
         THEN [err |-> TRUE, eye_relief_dial |-> eye_relief_dial,
               found_user_profile |-> found_user_profile]
    ELSE IF MatchOfTags(tagged_data[i], selected_product, default_user).matched
         THEN IF tagged_data[i].EyeReliefDial.kind = "integer"
              THEN FindUserProfile(tagged_data, selected_product, default_user,
                                   i + 1, tagged_data[i].EyeReliefDial.value, TRUE)
              ELSE IF tagged_data[i].EyeReliefDial.kind # "absent"
                   THEN [err |-> TRUE, eye_relief_dial |-> eye_relief_dial,
                         found_user_profile |-> found_user_profile]
                   ELSE FindUserProfile(tagged_data, selected_product,
                                        default_user, i + 1, eye_relief_dial, TRUE)
    ELSE FindUserProfile(tagged_data, selected_product, default_user, i + 1,
                         eye_relief_dial, found_user_profile)

\* the value read_ovr_profile stores before it opens the file
DefaultEyeReliefDial == 3

\* The searches of read_ovr_profile: whether one of them ends in
\* ovr_parse_error or the file is not there (err), and the eye_relief_dial the
\* function has stored by then
ProfileSearch(doc, selected_product) ==
    LET first == FindDefaultUser(doc.TaggedData, selected_product, 1, NULL)
        second == FindUserProfile(doc.TaggedData, selected_product,
                                  first.default_user, 1, DefaultEyeReliefDial,
                                  FALSE)
    IN IF ~doc.exists \/ ~doc.root_is_object \/ ~doc.TaggedData_is_array
          \/ first.err \/ first.default_user = NULL
       THEN [err |-> TRUE, eye_relief_dial |-> DefaultEyeReliefDial]
       ELSE [err |-> second.err \/ ~second.found_user_profile,
             eye_relief_dial |-> second.eye_relief_dial]

\* a read_ovr_profile that reports success whatever the searches find
read_ovr_profile_lenient(doc, selected_product) ==
    [ret |-> "OK",
     eye_relief_dial |-> ProfileSearch(doc, selected_product).eye_relief_dial]

\* read_ovr_profile: its return value and the eye_relief_dial it leaves
read_ovr_profile(doc, selected_product) ==
    [ret |-> IF ProfileSearch(doc, selected_product).err THEN "EINVAL" ELSE "OK",
     eye_relief_dial |-> ProfileSearch(doc, selected_product).eye_relief_dial]

\* the documents the profile path holds in the model
NoFile ==
    [exists |-> FALSE, root_is_object |-> FALSE, TaggedData_is_array |-> FALSE,
     TaggedData |-> <<>>]
NotAnObject ==
    [exists |-> TRUE, root_is_object |-> FALSE, TaggedData_is_array |-> FALSE,
     TaggedData |-> <<>>]
DefaultUserElement(product, user) ==
    Element(<<Tag(product, NULL)>>, user, "absent", 0)
UserProfileElement(product, user, dial_kind, dial_value) ==
    Element(<<Tag(NULL, user), Tag(product, NULL)>>, NULL, dial_kind, dial_value)
ProfileOf(product, dial_kind, dial_value) ==
    Document(<<DefaultUserElement(product, "alice"),
               UserProfileElement(product, "alice", dial_kind, dial_value)>>)
NoUserProfile == Document(<<DefaultUserElement("RiftDK2", "alice")>>)
TwoDefaultUsers ==
    Document(<<DefaultUserElement("RiftDK2", "alice"),
               DefaultUserElement("RiftDK2", "bob"),
               UserProfileElement("RiftDK2", "alice", "integer", 7)>>)
ProfileDocs ==
    {NoFile, NotAnObject, NoUserProfile, TwoDefaultUsers,
     ProfileOf("RiftDK2", "integer", 7), ProfileOf("RiftDK2", "integer", 99),
     ProfileOf("RiftDK2", "absent", 0), ProfileOf("RiftDK2", "other", 0),
     ProfileOf("RiftDK1", "integer", 7)}

(***************************************************************************)
(* init_dict                                                               *)
(***************************************************************************)

valid_devices == <<"RiftDK1", "RiftDK2">>
valid_sdk_versions == << <<"0.2.5c", "0.4.2">>, <<"0.4.2">> >>

\* the index the device loop stops at; Len(valid_devices) + 1 is its NULL entry
DeviceIndex(device) ==
    IF \E i \in 1..Len(valid_devices) : valid_devices[i] = device
    THEN CHOOSE i \in 1..Len(valid_devices) : valid_devices[i] = device
    ELSE Len(valid_devices) + 1

\* The version loop tests the address of row j, which is never NULL, so for a
\* version that is not in the device's row it reaches the row's NULL entry and
\* hands it to strcmp.  That is undefined: the read of address 0 faults, or the
\* search runs on through the memory behind the row until some word of it
\* compares equal, and the version is accepted.
NullStrcmpOutcomes == {"SIGSEGV", "accepted"}

\* av_parse_video_size of the strings of the model; <<0, 0>>: no size
VideoSize(str) ==
    IF str = "4x2" THEN <<4, 2>>
    ELSE IF str = "2x2" THEN <<2, 2>>
    ELSE <<0, 0>>

\* snprintf "%d" of the sizes above
Decimal(n) == IF n = 2 THEN "2" ELSE IF n = 4 THEN "4" ELSE "0"

\* a test that sends every configuration to the profile
ProfileWantedAlways(c) == TRUE

\* the test that sends init_dict to the profile
ProfileWanted(c) == c.eye_relief_dial = -1

\* init_dict on the context the options were stored into; doc is the profile
\* file and null_strcmp the outcome of the strcmp with NULL, should it happen.
\* The result: the return value, the context it leaves, and whether it read the
\* profile.
init_dict(c, doc, null_strcmp) ==
    LET result(ret, cc, read) == [ret |-> ret, ctx |-> cc, profile_read |-> read]
        \* the defaults of the expressions, and the return
        Defaulted(c4, read) ==
            result("OK",
                   [c4 EXCEPT !.w_expr = IF c4.w_expr = NULL THEN "iw" ELSE c4.w_expr,
                              !.h_expr = IF c4.h_expr = NULL THEN "ih" ELSE c4.h_expr],
                   read)
        \* av_parse_video_size of size_str, and the two av_opt_set of its result
        Parsed(c3, size, read) ==
            IF c3.size_str # NULL /\ size = <<0, 0>> THEN result("EINVAL", c3, read)
            ELSE Defaulted(IF c3.size_str # NULL
                           THEN [c3 EXCEPT !.w = size[1], !.h = size[2],
                                           !.w_expr = Decimal(size[1]),
                                           !.h_expr = Decimal(size[2])]
                           ELSE c3,
                           read)
        Sized(c3, read) == Parsed(c3, VideoSize(c3.size_str), read)
        \* the ppd check, the size conflict check and the FFSWAP
        Checked(c2, read) ==
            IF ~IsZero(c2.ppd) /\ c2.forward_warp = 0 THEN result("EINVAL", c2, read)
            ELSE IF c2.size_str # NULL /\ (c2.w_expr # NULL \/ c2.h_expr # NULL)
                 THEN result("EINVAL", c2, read)
            ELSE Sized(IF c2.w_expr # NULL /\ c2.h_expr = NULL
                       THEN [c2 EXCEPT !.w_expr = c2.size_str, !.size_str = c2.w_expr]
                       ELSE c2,
                       read)
        \* what read_ovr_profile left and returned
        Looked(c2, prof) ==
            IF prof.ret # "OK" THEN result(prof.ret, c2, TRUE) ELSE Checked(c2, TRUE)
        Profiled(c1, prof) ==
            Looked([c1 EXCEPT !.eye_relief_dial = prof.eye_relief_dial], prof)
        \* the device loop with its version loop, and the device check
        Validated(c1, known, listed) ==
            IF known /\ ~listed /\ null_strcmp = "SIGSEGV"
            THEN result("SIGSEGV", c1, FALSE)
            ELSE IF ~known THEN result("EINVAL", c, FALSE)
            ELSE IF ProfileWanted(c1)
                 THEN Profiled(c1, read_ovr_profile(doc, c1.device))
            ELSE Checked(c1, FALSE)
        Versioned(i, known, sdk) ==
            Validated([c EXCEPT !.sdkversion = sdk], known,
                      known /\ \E j \in 1..Len(valid_sdk_versions[i]) :
                                   valid_sdk_versions[i][j] = sdk)
        Indexed(i, known) ==
            Versioned(i, known,
                      IF known /\ c.sdkversion = "default"
                      THEN valid_sdk_versions[i][1] ELSE c.sdkversion)
        Device(i) == Indexed(i, i <= Len(valid_devices))
    IN Device(DeviceIndex(c.device))

(***************************************************************************)
(* config_props                                                            *)
(***************************************************************************)

\* av_expr_parse_and_eval of the expressions of the model, with the input
\* link's size for iw and ih
EvalExpr(expr, iw, ih) ==
    IF expr = "iw" THEN [ok |-> TRUE, res |-> iw]
    ELSE IF expr = "ih" THEN [ok |-> TRUE, res |-> ih]
    ELSE IF expr = "2" THEN [ok |-> TRUE, res |-> 2]
    ELSE IF expr = "4" THEN [ok |-> TRUE, res |-> 4]
    ELSE IF expr = "-1" THEN [ok |-> TRUE, res |-> -1]
    ELSE IF expr = "-2" THEN [ok |-> TRUE, res |-> -2]
    ELSE [ok |-> FALSE, res |-> 0]

\* av_rescale(a, b, c): a * b / c rounded to the nearest integer
av_rescale(a, b, c) == (a * b + c \div 2) \div c

FFMIN(a, b) == IF a > b THEN b ELSE a
FFMAX(a, b) == IF a > b THEN a ELSE b

\* The output size config_props computes from unwarpvr->w and unwarpvr->h as
\* the expressions left them: <<w, h, unwarpvr->w, unwarpvr->h>>
OutputSize(cw, ch, iw, ih, force_original_aspect_ratio) ==
    LET factor_w == IF cw < -1 THEN -cw ELSE 1
        factor_h == IF ch < -1 THEN -ch ELSE 1
        uw == IF cw < 0 /\ ch < 0 THEN 0 ELSE cw
        uh == IF cw < 0 /\ ch < 0 THEN 0 ELSE ch
        w0 == IF uw = 0 THEN iw ELSE uw
        h0 == IF uh = 0 THEN ih ELSE uh
        w1 == IF w0 < 0 THEN av_rescale(h0, iw, ih * factor_w) * factor_w ELSE w0
        h1 == IF h0 < 0 THEN av_rescale(w1, ih, iw * factor_h) * factor_h ELSE h0
        tmp_w == av_rescale(h1, iw, ih)
        tmp_h == av_rescale(w1, ih, iw)
    IN IF force_original_aspect_ratio = 0 THEN <<w1, h1, uw, uh>>
       ELSE IF force_original_aspect_ratio = 1
            THEN <<FFMIN(tmp_w, w1), FFMIN(tmp_h, h1), uw, uh>>
       ELSE <<FFMAX(tmp_w, w1), FFMAX(tmp_h, h1), uw, uh>>

\* the calls of config_props that can fail for want of memory or inside
\* libswscale, in the order it makes them
ConfigFaults ==
    {"none", "sws_alloc_context", "sws_init_context", "ff_get_video_buffer",
     "av_malloc_array"}

\* the input of the cache builder: what config_props has at hand when it
\* reaches the loops
BuildInput(c, d, inl, outl, in_linesize, platform) ==
    [d |-> d, forward_warp |-> c.forward_warp, swap_eyes |-> c.swap_eyes,
     left_eye_only |-> c.left_eye_only, mono_input |-> c.mono_input,
     scale_width |-> c.scale_width, scale_height |-> c.scale_height,
     scale_in_width |-> c.scale_in_width, scale_in_height |-> c.scale_in_height,
     in_w |-> inl.w, in_h |-> inl.h, out_w |-> outl.w, out_h |-> outl.h,
     in_linesize |-> in_linesize, platform |-> platform]

\* config_props from its entry to the allocation of the table.  inl is the
\* input link, outl the output link before the call, fault the call that
\* fails, in_linesize the stride of the temporary frame, uninit the value of
\* the local res before anything is stored in it.  The result: ret ("" when
\* the function goes on to fill the table), the context and the output link
\* it leaves, whether av_malloc_array was called (called) and returned a
\* buffer (allocated), and the input of the builder.
config_props_setup(c, inl, outl, fault, in_linesize, uninit, platform) ==
    LET failed(ret, cc, ol) ==
            [ret |-> ret, ctx |-> cc, outlink |-> ol, called |-> FALSE,
             allocated |-> FALSE, build |-> <<>>]
        \* the assignment of av_malloc_array's result and the test of it
        Allocate(c3, outl1, d) ==
            [ret |-> IF fault = "av_malloc_array" THEN "EINVAL" ELSE "",
             ctx |-> c3, outlink |-> outl1, called |-> TRUE,
             allocated |-> fault # "av_malloc_array",
             build |-> IF fault # "av_malloc_array"
                       THEN <<BuildInput(c3, d, inl, outl1, in_linesize, platform)>>
                       ELSE <<>>]
        \* the ppd block
        Scales(c2, outl1, d, scale_in) ==
            Allocate([c2 EXCEPT !.scale_in_width = scale_in[1],
                                !.scale_in_height = scale_in[2]],
                     outl1, d)
        \* the device constants
        Device(c2, outl1, d) ==
            IF ~d.ok THEN failed("EINVAL", c2, outl1)
            ELSE Scales(c2, outl1, d,
                        ScaleInAfterPpd(d, c.ppd, c.scale_in_width, c.scale_in_height))
        \* the temporary input frame
        Frame(c2, outl1) ==
            IF fault = "ff_get_video_buffer" THEN failed("ENOMEM", c2, outl1)
            ELSE Device(c2, outl1,
                        DeviceProfile(c.device, c.sdkversion, c.eye_relief_dial))
        \* the scaler contexts, which a change of size asks for
        Scaler(c1, outl1, scaled) ==
            IF scaled /\ fault = "sws_alloc_context" THEN failed("ENOMEM", c1, outl1)
            ELSE IF scaled /\ fault = "sws_init_context"
                 THEN failed("EINVAL", [c1 EXCEPT !.sws = "context"], outl1)
            ELSE Frame(IF scaled THEN [c1 EXCEPT !.sws = "context"] ELSE c1, outl1)
        \* the assignment of the output link's size
        Links(cw2, size) ==
            Scaler([cw2 EXCEPT !.w = size[3], !.h = size[4], !.sws = "NULL"],
                   [w |-> size[1], h |-> size[2]],
                   ~(inl.w = size[1] /\ inl.h = size[2]))
        Sized(cw2) ==
            Links(cw2, OutputSize(cw2.w, cw2.h, inl.w, inl.h,
                                  c.force_original_aspect_ratio))
        \* the three evaluations of the expressions
        Width(ch1, eval_w) ==
            IF ~eval_w.ok THEN failed("EINVAL", ch1, outl)
            ELSE Sized([ch1 EXCEPT !.w = eval_w.res])
        Height(cw1, eval_h) ==
            IF ~eval_h.ok THEN failed("EINVAL", cw1, outl)
            ELSE Width([cw1 EXCEPT !.h = eval_h.res],
                       EvalExpr(c.w_expr, inl.w, inl.h))
        First(first_w) ==
            Height([c EXCEPT !.w = IF first_w.ok THEN first_w.res ELSE uninit],
                   EvalExpr(c.h_expr, inl.w, inl.h))
    IN First(EvalExpr(c.w_expr, inl.w, inl.h))

(***************************************************************************)
(* filter_frame                                                            *)
(***************************************************************************)

\* FFALIGN
FFALIGN(x, a) == ((x + a - 1) \div a) * a

\* the alignment ff_get_video_buffer gives the rows of the frames it allocates
StrideAlign(platform) == IF platform = "x86" THEN 32 ELSE 16

\* linesize[0] of a frame of width w that ff_get_video_buffer allocated
PoolLinesize(platform, w) == FFALIGN(w * NUM_CHANNELS, StrideAlign(platform))

\* what a read outside the source frame's buffer gives: a byte, or a fault
Fault == 256
BeyondFrame == {0, 255, Fault}

\* The byte at offset off of the source frame's data[0].  A frame is its
\* linesize, its height, the seed of its content, and what lies beyond it.
FrameByte(frame, off) == 1 + ((off * 7 + frame.seed * 3) % 255)
src_at(frame, off) ==
    IF off >= 0 /\ off < frame.h * frame.linesize THEN FrameByte(frame, off)
    ELSE frame.beyond

\* a byte of the output buffer nothing was stored in
Unwritten == 257

\* The copy loops, from step n on; one step is one pass of the inner loop.
\* st.dst is the offset of dst in the output frame, the table index of
\* inv_cache_p is n.
RECURSIVE CopyLoop(_, _, _, _, _, _)
CopyLoop(table, frame, jlimit, end_of_line_size, n, st) ==
    IF n >= st.steps \/ st.fault THEN st
    ELSE LET entry == table[n + 1]
             byte == IF entry = Sentinel THEN 0 ELSE src_at(frame, entry)
             next_dst == IF (n + 1) % jlimit = 0
                         THEN st.dst + 1 + end_of_line_size ELSE st.dst + 1
             stored == IF byte = Fault THEN [st EXCEPT !.fault = TRUE]
                       ELSE [st EXCEPT !.dst = next_dst,
                                       !.data[st.dst + 1] = byte,
                                       !.writes[st.dst + 1] = @ + 1]
         IN IF stored.dst >= 0
            THEN CopyLoop(table, frame, jlimit, end_of_line_size, n + 1, stored)
            ELSE stored

\* the loops without the step over the padding at the end of each output row
filter_frame_packed(table, frame, outl, out_linesize) ==
    CopyLoop(table, frame, outl.w * NUM_CHANNELS, 0, 0,
             [dst |-> 0, fault |-> FALSE, steps |-> outl.h * outl.w * NUM_CHANNELS,
              data |-> [k \in 1..(outl.h * out_linesize) |-> Unwritten],
              writes |-> [k \in 1..(outl.h * out_linesize) |-> 0]])

\* filter_frame's loops over an output frame of out_linesize: the bytes of the
\* output buffer and how often each was stored
filter_frame(table, frame, outl, out_linesize) ==
    LET jlimit == outl.w * NUM_CHANNELS
        end_of_line_size == out_linesize - jlimit
    IN CopyLoop(table, frame, jlimit, end_of_line_size, 0,
                [dst |-> 0, fault |-> FALSE, steps |-> outl.h * jlimit,
                 data |-> [k \in 1..(outl.h * out_linesize) |-> Unwritten],
                 writes |-> [k \in 1..(outl.h * out_linesize) |-> 0]])

(***************************************************************************)
(* the filter instance and its host                                        *)
(***************************************************************************)

\* the options as av_opt_set_defaults leaves them (the table unwarpvr_options),
\* with the fields of the zeroed context that the handlers use
Defaults ==
    [device |-> "RiftDK2", sdkversion |-> "default", eye_relief_dial |-> -1,
     forward_warp |-> 0, ppd |-> Zero, swap_eyes |-> 0, left_eye_only |-> 0,
     mono_input |-> 0, scale_width |-> One, scale_height |-> One,
     scale_in_width |-> One, scale_in_height |-> One,
     size_str |-> NULL, w_expr |-> NULL, h_expr |-> NULL,
     force_original_aspect_ratio |-> 0,
     w |-> 0, h |-> 0, sws |-> "NULL", inv_cache |-> 0]

\* scale factors that make images of a few pixels span the lens' field of view
SmallScale == Dec(2, 3)
SmallPpd == Dec(4, 2)

\* an option set in both directions and with the scales that matter in each
Variants(o) ==
    {o,
     [o EXCEPT !.scale_width = SmallScale, !.scale_height = SmallScale],
     [o EXCEPT !.forward_warp = 1, !.ppd = SmallPpd],
     [o EXCEPT !.forward_warp = 1, !.scale_in_width = SmallScale,
               !.scale_in_height = SmallScale]}

\* the options with an explicit eye relief, which never looks at the profile
Base == [Defaults EXCEPT !.eye_relief_dial = 5]

\* the option sets of the life cycle runs
LifecycleOptions ==
    UNION {Variants(o) :
              o \in {Base,
                     [Base EXCEPT !.device = "RiftDK1"],
                     [Base EXCEPT !.device = "RiftDK1", !.sdkversion = "0.4.2"],
                     [Base EXCEPT !.size_str = "2x2"],
                     [Base EXCEPT !.left_eye_only = 1, !.swap_eyes = 1]}}

\* the option sets that exercise init_dict's checks
CheckedOptions ==
    {[Defaults EXCEPT !.device = dv, !.sdkversion = sv, !.eye_relief_dial = dl,
                      !.forward_warp = fw, !.ppd = p] :
        dv \in {"RiftDK1", "RiftDK2", "Vive"}, sv \in {"default", "0.4.2", "9.9"},
        dl \in {-1, 0, 10}, fw \in {0, 1}, p \in {Zero, SmallPpd}}
    \cup
    {[Base EXCEPT !.device = dv, !.size_str = s, !.w_expr = w, !.h_expr = h] :
        dv \in {"RiftDK2", "Vive"}, s \in {NULL, "4x2", "bad"},
        w \in {NULL, "2", "-1", "bad", "4x2"}, h \in {NULL, "2", "-2", "bad"}}
    \cup
    {[Base EXCEPT !.w_expr = "4", !.h_expr = "4",
                  !.force_original_aspect_ratio = f] : f \in {1, 2}}

\* the option sets that exercise the cache builder
BuilderOptions ==
    UNION {Variants([o EXCEPT !.swap_eyes = s, !.left_eye_only = l,
                              !.mono_input = m]) :
              o \in {Base, [Base EXCEPT !.device = "RiftDK1"],
                     [Base EXCEPT !.device = "RiftDK1", !.sdkversion = "0.4.2"]},
              s \in {0, 1}, l \in {0, 1}, m \in {0, 1}}

\* the sizes the host gives the input link
InSizes == {[w |-> 4, h |-> 2], [w |-> 2, h |-> 2]}

\* values an uninitialised int can hold
GarbageInts == {0, 1000}

\* the number of config_props calls the host makes on one instance
MaxConfigs == 2
MaxConfigsChecked == 1
MaxConfigsBuilder == 1

VARIABLES
    platform,   \* the platform the filter is built for
    opts,       \* the options the user supplied
    ctx,        \* UnwarpVRContext
    consulted,  \* the profile documents init_dict has read
    inlink,     \* w and h of the input link
    outlink,    \* w and h of the output link
    heap,       \* the buffers av_malloc_array has returned
    build,      \* config_props' locals while it fills the table
    out,        \* the frame the last filter_frame call passed on
    pc,         \* where the instance is in its life
    ret,        \* what the last call returned
    budget,     \* the config_props calls the host still makes
    peer,       \* a second instance of the filter in the same graph
    probe       \* the arguments and the result of one call of a function

vars == <<platform, opts, ctx, consulted, inlink, outlink, heap, build, out,
          pc, ret, budget, peer, probe>>

InitWith(options, configs) ==
    /\ platform \in Platforms
    /\ opts \in options
    /\ ctx = opts
    /\ consulted = <<>>
    /\ inlink = [w |-> 0, h |-> 0]
    /\ outlink = [w |-> 0, h |-> 0]
    /\ heap = <<>>
    /\ build = <<>>
    /\ out = <<>>
    /\ pc = "created"
    /\ ret = ""
    /\ budget = configs
    /\ peer = <<>>
    /\ probe = <<>>

Init == InitWith(LifecycleOptions, MaxConfigs)
InitChecked == InitWith(CheckedOptions, MaxConfigsChecked)
InitBuilder == InitWith(BuilderOptions, MaxConfigsBuilder)

\* the host calls init_dict once, with whatever file is at the profile path
InitDict ==
    /\ pc = "created"
    /\ \E doc \in ProfileDocs, null_strcmp \in NullStrcmpOutcomes :
          LET Returned(r) ==
                  /\ ctx' = r.ctx
                  /\ ret' = r.ret
                  /\ consulted' = IF r.profile_read THEN <<doc>> ELSE <<>>
                  /\ pc' = IF r.ret = "OK" THEN "inited"
                           ELSE IF r.ret = "SIGSEGV" THEN "crashed"
                           ELSE "init_failed"
          IN Returned(init_dict(ctx, doc, null_strcmp))
    /\ UNCHANGED <<peer, probe, platform, opts, inlink, outlink, heap, build, out, budget>>

\* config_props up to and including the assignment of inv_cache
ConfigPropsSetup ==
    /\ pc \in {"inited", "configured", "config_failed"}
    /\ budget > 0
    /\ \E inl \in InSizes, fault \in ConfigFaults, garbage \in GarbageInts :
          LET Reached(r) ==
                  /\ inlink' = inl
                  /\ outlink' = r.outlink
                  /\ ctx' = IF r.allocated
                            THEN [r.ctx EXCEPT !.inv_cache = Len(heap) + 1]
                            ELSE IF r.called THEN [r.ctx EXCEPT !.inv_cache = 0]
                            ELSE r.ctx
                  /\ heap' = IF r.allocated
                             THEN Append(heap,
                                      [data |-> [k \in 1..(r.outlink.w * r.outlink.h
                                                            * NUM_CHANNELS) |-> garbage],
                                       live |-> TRUE, complete |-> FALSE,
                                       from |-> r.build[1]])
                             ELSE heap
                  /\ build' = r.build
                  /\ ret' = r.ret
                  /\ pc' = IF r.allocated THEN "allocated" ELSE "config_failed"
          IN Reached(config_props_setup(ctx, inl, outlink, fault,
                                        PoolLinesize(platform, inl.w), garbage,
                                        platform))
    /\ budget' = budget - 1
    /\ out' = <<>>
    /\ UNCHANGED <<peer, probe, platform, opts, consulted>>

\* the loop that stores the sentinel in every entry
ConfigPropsFill ==
    /\ pc = "allocated"
    /\ heap' = [heap EXCEPT ![ctx.inv_cache].data = SentinelTable(build[1])]
    /\ pc' = "filled"
    /\ UNCHANGED <<peer, probe, platform, opts, ctx, consulted, inlink, outlink, build, out,
                   ret, budget>>

\* the eye loops, and the return
ConfigPropsBuild ==
    /\ pc = "filled"
    /\ heap' = [heap EXCEPT ![ctx.inv_cache].data = BuildCacheFrom(build[1], @),
                            ![ctx.inv_cache].complete = TRUE]
    /\ build' = <<>>
    /\ ret' = "OK"
    /\ pc' = "configured"
    /\ UNCHANGED <<peer, probe, platform, opts, ctx, consulted, inlink, outlink, out, budget>>

\* the linesizes the frames the host passes in have: the pool's, or packed rows
FrameLinesizes(w) == {PoolLinesize(platform, w), w * NUM_CHANNELS}
FrameSeeds == {0, 1}

\* a filter_frame that fills the table anew on every frame
FilterFrameRefills ==
    /\ pc = "configured"
    /\ heap' = [heap EXCEPT ![ctx.inv_cache].data =
                                [k \in DOMAIN @ |-> Sentinel]]
    /\ UNCHANGED <<peer, probe, platform, opts, ctx, consulted, inlink, outlink, build, out,
                   pc, ret, budget>>

\* filter_frame on a frame of the input link's size
FilterFrame ==
    /\ pc = "configured"
    /\ \E linesize \in FrameLinesizes(inlink.w), seed \in FrameSeeds,
          beyond \in BeyondFrame, allocated \in BOOLEAN :
          LET Copied(frame, out_linesize, r) ==
                  IF ~allocated
                  THEN out' = <<>> /\ ret' = "ENOMEM" /\ pc' = pc
                  ELSE IF r.fault
                  THEN out' = <<>> /\ ret' = "SIGSEGV" /\ pc' = "crashed"
                  ELSE /\ out' = <<[in |-> frame, linesize |-> out_linesize,
                                    data |-> r.data, writes |-> r.writes]>>
                       /\ ret' = "OK"
                       /\ pc' = pc
              Passed(frame, out_linesize) ==
                  Copied(frame, out_linesize,
                         filter_frame(heap[ctx.inv_cache].data, frame, outlink,
                                      out_linesize))
          IN Passed([linesize |-> linesize, h |-> inlink.h, seed |-> seed,
                     beyond |-> beyond],
                    PoolLinesize(platform, outlink.w))
    /\ UNCHANGED <<peer, probe, platform, opts, ctx, consulted, inlink, outlink, heap, build,
                   budget>>

\* uninit, which the host calls once when it frees the filter
Uninit ==
    /\ pc \in {"inited", "init_failed", "configured", "config_failed"}
    /\ heap' = IF ctx.inv_cache # 0
               THEN [heap EXCEPT ![ctx.inv_cache].live = FALSE] ELSE heap
    /\ ctx' = [ctx EXCEPT !.sws = "NULL", !.inv_cache = 0]
    /\ pc' = "closed"
    /\ out' = <<>>
    /\ UNCHANGED <<peer, probe, platform, opts, consulted, inlink, outlink, build, ret, budget>>

Next ==
    \/ InitDict
    \/ ConfigPropsSetup
    \/ ConfigPropsFill
    \/ ConfigPropsBuild
    \/ FilterFrame
    \/ Uninit

Spec == Init /\ [][Next]_vars
SpecChecked == InitChecked /\ [][Next]_vars
SpecBuilder == InitBuilder /\ [][Next]_vars

(***************************************************************************)
(* the properties                                                          *)
(***************************************************************************)

\* the table inv_cache points to
Table == heap[ctx.inv_cache].data

\* C1: in the frame filter_frame passes on, the byte at row i, position j is 0
\* where entry i*out_w*3 + j of the table is the sentinel and the source byte at
\* the entry's offset otherwise; every such byte was stored once, and nothing
\* was stored in the padding of the rows.
C1_ByteRule ==
    out # <<>> =>
        LET o == out[1]
            jlimit == outlink.w * 3
        IN /\ \A i \in 0..(outlink.h - 1), j \in 0..(jlimit - 1) :
                LET entry == Table[i * jlimit + j + 1]
                    pos == i * o.linesize + j + 1
                IN /\ o.writes[pos] = 1
                   /\ o.data[pos] = IF entry = -1 THEN 0 ELSE src_at(o.in, entry)
           /\ \A pos \in DOMAIN o.data :
                (pos - 1) % o.linesize >= jlimit =>
                    o.writes[pos] = 0 /\ o.data[pos] = Unwritten

\* a frame of two padded rows was resampled with a table that holds sentinels
\* and offsets
C1_Witness ==
    /\ out # <<>>
    /\ outlink.h = 2
    /\ out[1].linesize > outlink.w * 3
    /\ \E k \in DOMAIN Table : Table[k] = -1
    /\ \E k \in DOMAIN Table : Table[k] # -1

\* the destination eye that computes column c of the output
EyeOfColumn(b, c) ==
    IF b.left_eye_only # 0 THEN 0 ELSE IF c < b.out_w \div 2 THEN 0 ELSE 1

\* entry idx of a table built from b is the sentinel or the offset of a
\* channel of a pixel of the source eye's region
EntryInSource(b, idx, entry) ==
    \/ entry = -1
    \/ \E srci \in 0..(b.in_h - 1), srcj \in 0..(in_width_per_eye(b) - 1) :
          entry = srci * b.in_linesize
                    + (in_eye(b, EyeOfColumn(b, (idx \div 3) % b.out_w))
                         * in_width_per_eye(b) + srcj) * 3
                    + (idx % 3)

\* C2: when config_props has built the cache, every entry is the sentinel or
\* srci*stride + (in_eye*in_width_per_eye + srcj)*3 + channel of a pixel with
\* 0 <= srci < in_h and 0 <= srcj < in_width_per_eye; a pixel computed outside
\* these bounds leaves the sentinel, and the build returns success.
C2_EntriesInSource ==
    [][(pc = "filled" /\ pc' = "configured") =>
          LET b == build[1]
              table == heap'[ctx.inv_cache].data
          IN /\ ret' = "OK"
             /\ Len(table) = b.out_w * b.out_h * 3
             /\ \A k \in DOMAIN table : EntryInSource(b, k - 1, table[k])
             /\ \A eye_count \in EyesBuilt(b), n \in 0..(StepsPerEye(b) - 1) :
                   LET p == PixelOfStep(b, n)
                       s == SourcePixel(b, eye_count, p.i, p.j, p.channel)
                   IN (s[1] < 0 \/ s[2] < 0 \/ s[1] >= b.in_h
                         \/ s[2] >= in_width_per_eye(b))
                      => table[output_idx(b, eye_count, p.i, p.j, p.channel) + 1]
                           = -1]_vars

\* a forward build with the eyes swapped left sentinels and offsets
C2_Witness ==
    /\ pc = "configured"
    /\ opts.forward_warp = 1
    /\ opts.swap_eyes = 1
    /\ opts.mono_input = 0
    /\ opts.left_eye_only = 0
    /\ \E k \in DOMAIN Table : Table[k] = -1
    /\ \E k \in DOMAIN Table : Table[k] # -1

\* C5: a filter_frame call changes no entry of any table, not the cache
\* pointer and no field of the context or of the links.
C5_FrameLeavesCache ==
    [][FilterFrame => (heap' = heap /\ ctx' = ctx /\ inlink' = inlink
                         /\ outlink' = outlink /\ opts' = opts)]_vars

\* a frame was resampled and passed on while the host has a configuration
\* still to make
C5_Witness == out # <<>> /\ ret = "OK" /\ budget = 1 /\ heap[ctx.inv_cache].complete

\* the configuration the context and the links hold is the one the table
\* inv_cache points to was built from
BuiltFromCurrent(c) ==
    /\ Len(c.data) = outlink.w * outlink.h * 3
    /\ c.from.out_w = outlink.w /\ c.from.out_h = outlink.h
    /\ c.from.in_w = inlink.w /\ c.from.in_h = inlink.h
    /\ c.from.d = DeviceProfile(ctx.device, ctx.sdkversion, ctx.eye_relief_dial)
    /\ c.from.forward_warp = ctx.forward_warp
    /\ c.from.swap_eyes = ctx.swap_eyes
    /\ c.from.left_eye_only = ctx.left_eye_only
    /\ c.from.mono_input = ctx.mono_input
    /\ c.from.scale_width = ctx.scale_width
    /\ c.from.scale_height = ctx.scale_height
    /\ c.from.scale_in_width = ctx.scale_in_width
    /\ c.from.scale_in_height = ctx.scale_in_height

\* C3: whenever config_props has returned, with success or with an error, and
\* the instance holds a cache, the cache has out_w*out_h*3 entries and was
\* built from the device profile, the eye configuration and the geometry that
\* the context and the links hold now.
C3_CacheMatchesConfiguration ==
    (pc \in {"configured", "config_failed"} /\ ctx.inv_cache # 0)
        => BuiltFromCurrent(heap[ctx.inv_cache])

\* two builds had the same geometry
SameGeometry(b1, b2) ==
    /\ b1.in_w = b2.in_w /\ b1.in_h = b2.in_h
    /\ b1.out_w = b2.out_w /\ b1.out_h = b2.out_h
    /\ b1.in_linesize = b2.in_linesize

\* C4: when config_props has run twice in a row on the same links, the second
\* table equals the first, and scale_in_width and scale_in_height are after the
\* second build what they were after the first.
C4_RebuildIdempotent ==
    (pc = "configured" /\ Len(heap) = 2 /\ SameGeometry(heap[1].from, heap[2].from))
        => /\ heap[2].data = heap[1].data
           /\ heap[2].from.scale_in_width = heap[1].from.scale_in_width
           /\ heap[2].from.scale_in_height = heap[1].from.scale_in_height

\* C9: while the instance holds a complete cache, a config_props call that
\* fails leaves inv_cache and the table it points to as they were, and a step
\* of config_props that changes inv_cache changes it to a complete table.
C9_RebuildAtomic ==
    [][(ctx.inv_cache # 0 /\ heap[ctx.inv_cache].complete /\ pc' # "closed") =>
          /\ pc' = "config_failed" =>
                /\ ctx'.inv_cache = ctx.inv_cache
                /\ heap'[ctx.inv_cache] = heap[ctx.inv_cache]
          /\ ctx'.inv_cache # ctx.inv_cache =>
                /\ ctx'.inv_cache # 0
                /\ heap'[ctx'.inv_cache].complete]_vars

\* C10: the table inv_cache points to, which is the one a filter_frame would
\* read, is always one that config_props has finished building.
C10_PublishedComplete == ctx.inv_cache # 0 => heap[ctx.inv_cache].complete

\* the configurations the claim calls malformed
Malformed(o) ==
    \/ o.device \notin {"RiftDK1", "RiftDK2"}
    \/ ~IsZero(o.ppd) /\ o.forward_warp = 0
    \/ o.size_str # NULL /\ (o.w_expr # NULL \/ o.h_expr # NULL)

\* C6: once init_dict has run on a malformed configuration it has returned an
\* error, config_props is never called and no cache is allocated.
C6_MalformedRejected ==
    (Malformed(opts) /\ pc # "created")
        => /\ ret \in {"EINVAL", "ENOMEM"}
           /\ pc \in {"init_failed", "closed"}
           /\ heap = <<>> /\ ctx.inv_cache = 0

\* init_dict read a profile document in which the lookup fails
LookupFailed ==
    consulted # <<>> /\ ProfileSearch(consulted[1], opts.device).err

\* C7 as the specification states it: when the lookup fails for a
\* configuration without an eye_relief_dial, init_dict succeeds and the
\* context holds the default 3.
C7_LookupFailureNotFatal ==
    (LookupFailed /\ pc # "created")
        => pc \notin {"init_failed", "crashed"} /\ ctx.eye_relief_dial = 3

\* C7 as the code has it: when init_dict comes to the lookup and the lookup
\* fails, init_dict returns EINVAL, so that config_props is never called and
\* no cache is built; the context holds the default 3 after a lookup that
\* succeeds on a user profile without an EyeReliefDial.
C7_LookupFailureFatal ==
    /\ (LookupFailed /\ pc # "created")
          => /\ ret = "EINVAL"
             /\ pc \in {"init_failed", "closed"}
             /\ heap = <<>>
    /\ (consulted = <<ProfileOf(opts.device, "absent", 0)>> /\ pc # "created")
          => ctx.eye_relief_dial = 3

\* init_dict has failed on a configuration without an eye_relief_dial because
\* there is no profile file
C7_Witness ==
    /\ pc = "init_failed"
    /\ opts.eye_relief_dial = -1
    /\ consulted = <<NoFile>>
    /\ ret = "EINVAL"

\* C8: with an eye_relief_dial other than -1 in the options, init_dict reads
\* no profile, the context keeps the option's value, and every table is built
\* from the device constants of that value.
C8_ExplicitDialOverrides ==
    (opts.eye_relief_dial # -1 /\ pc # "created")
        => /\ consulted = <<>>
           /\ ctx.eye_relief_dial = opts.eye_relief_dial
           /\ \A k \in DOMAIN heap :
                 heap[k].from.d = DeviceProfile(ctx.device, ctx.sdkversion,
                                                opts.eye_relief_dial)

\* a RiftDK2 cache was built with the eye_relief_dial 10 of the options
C8_Witness ==
    /\ pc = "configured"
    /\ opts.device = "RiftDK2"
    /\ opts.eye_relief_dial = 10
    /\ heap[ctx.inv_cache].from.d.ChromaticAberration = ChromaticAberrationMax

\* C11: once uninit has run, the cache pointer is null and no buffer that
\* config_props allocated for the instance is still allocated.
C11_CacheReleased ==
    pc = "closed" =>
        /\ ctx.inv_cache = 0
        /\ \A k \in DOMAIN heap : ~heap[k].live

(***************************************************************************)
(* two instances of the filter in one graph                                *)
(***************************************************************************)

\* the first filter of the chain: RiftDK1 unwarped
ChainOptions ==
    {[Base EXCEPT !.device = "RiftDK1", !.scale_width = SmallScale,
                  !.scale_height = SmallScale]}

\* the second filter of the chain: warped for the RiftDK2
PeerOptions == {[Base EXCEPT !.forward_warp = 1, !.ppd = SmallPpd]}

\* the number of config_props calls the host makes on each filter of a chain
MaxConfigsChain == 2
MaxConfigsPeer == 1

\* the second instance as avfilter_graph_alloc_filter leaves it: its own
\* UnwarpVRContext (ctx->priv) and its own links
PeerCreated(o) ==
    [ctx |-> o, inlink |-> [w |-> 0, h |-> 0], outlink |-> [w |-> 0, h |-> 0],
     out |-> <<>>, pc |-> "created", ret |-> "", budget |-> MaxConfigsPeer]

InitChain ==
    /\ platform \in Platforms
    /\ opts \in ChainOptions
    /\ ctx = opts
    /\ consulted = <<>>
    /\ inlink = [w |-> 0, h |-> 0]
    /\ outlink = [w |-> 0, h |-> 0]
    /\ heap = <<>>
    /\ build = <<>>
    /\ out = <<>>
    /\ pc = "created"
    /\ ret = ""
    /\ budget = MaxConfigsChain
    /\ peer \in {PeerCreated(o) : o \in PeerOptions}
    /\ probe = <<>>

\* a table every instance of the filter in the process shares, filled by
\* whichever instance builds first
ProcessTable == heap[1].data

\* the table the second instance's filter_frame reads: the one its own
\* context points to
PeerTable == heap[peer.ctx.inv_cache].data

\* init_dict of the second instance
PeerInitDict ==
    /\ peer.pc = "created"
    /\ pc \notin {"allocated", "filled", "crashed"}
    /\ \E doc \in ProfileDocs, null_strcmp \in NullStrcmpOutcomes :
          LET Returned(r) ==
                  peer' = [peer EXCEPT !.ctx = r.ctx, !.ret = r.ret,
                                       !.pc = IF r.ret = "OK" THEN "inited"
                                              ELSE IF r.ret = "SIGSEGV" THEN "crashed"
                                              ELSE "init_failed"]
          IN Returned(init_dict(peer.ctx, doc, null_strcmp))
    /\ UNCHANGED <<probe, platform, opts, ctx, consulted, inlink, outlink, heap,
                   build, out, pc, ret, budget>>

\* config_props of the second instance, whose input link is the output link
\* of the first
PeerConfigProps ==
    /\ peer.pc \in {"inited", "configured", "config_failed"}
    /\ pc = "configured"
    /\ peer.budget > 0
    /\ \E fault \in ConfigFaults, garbage \in GarbageInts :
          LET Returned(r) ==
                  /\ peer' = [peer EXCEPT
                                 !.inlink = outlink,
                                 !.outlink = r.outlink,
                                 !.ctx = IF r.allocated
                                         THEN [r.ctx EXCEPT !.inv_cache = Len(heap) + 1]
                                         ELSE IF r.called
                                         THEN [r.ctx EXCEPT !.inv_cache = 0]
                                         ELSE r.ctx,
                                 !.ret = IF r.allocated THEN "OK" ELSE r.ret,
                                 !.pc = IF r.allocated THEN "configured"
                                        ELSE "config_failed",
                                 !.out = <<>>,
                                 !.budget = @ - 1]
                  /\ heap' = IF r.allocated
                             THEN Append(heap,
                                      [data |-> BuildCacheFrom(r.build[1],
                                                    SentinelTable(r.build[1])),
                                       live |-> TRUE, complete |-> TRUE,
                                       from |-> r.build[1]])
                             ELSE heap
          IN Returned(config_props_setup(peer.ctx, outlink, peer.outlink, fault,
                                         PoolLinesize(platform, outlink.w), garbage,
                                         platform))
    /\ UNCHANGED <<probe, platform, opts, ctx, consulted, inlink, outlink, build,
                   out, pc, ret, budget>>

\* filter_frame of the second instance on a frame of its input link's size
PeerFilterFrame ==
    /\ peer.pc = "configured"
    /\ pc \notin {"allocated", "filled", "crashed"}
    /\ \E seed \in FrameSeeds, beyond \in BeyondFrame, allocated \in BOOLEAN :
          LET Copied(frame, out_linesize, r) ==
                  IF ~allocated
                  THEN peer' = [peer EXCEPT !.out = <<>>, !.ret = "ENOMEM"]
                  ELSE IF r.fault
                  THEN peer' = [peer EXCEPT !.out = <<>>, !.ret = "SIGSEGV",
                                            !.pc = "crashed"]
                  ELSE peer' = [peer EXCEPT
                                   !.out = <<[in |-> frame, linesize |-> out_linesize,
                                              data |-> r.data, writes |-> r.writes]>>,
                                   !.ret = "OK"]
              Passed(frame, out_linesize) ==
                  Copied(frame, out_linesize,
                         filter_frame(PeerTable, frame, peer.outlink, out_linesize))
          IN Passed([linesize |-> PoolLinesize(platform, peer.inlink.w),
                     h |-> peer.inlink.h, seed |-> seed, beyond |-> beyond],
                    PoolLinesize(platform, peer.outlink.w))
    /\ UNCHANGED <<probe, platform, opts, ctx, consulted, inlink, outlink, heap,
                   build, out, pc, ret, budget>>

\* uninit of the second instance
PeerUninit ==
    /\ peer.pc \in {"inited", "init_failed", "configured", "config_failed"}
    /\ pc \notin {"allocated", "filled", "crashed"}
    /\ heap' = IF peer.ctx.inv_cache # 0
               THEN [heap EXCEPT ![peer.ctx.inv_cache].live = FALSE] ELSE heap
    /\ peer' = [peer EXCEPT !.ctx = [@ EXCEPT !.sws = "NULL", !.inv_cache = 0],
                            !.pc = "closed", !.out = <<>>]
    /\ UNCHANGED <<probe, platform, opts, ctx, consulted, inlink, outlink, build,
                   out, pc, ret, budget>>

\* The graph runs its filters on one thread, so a handler of the second
\* instance runs between the handlers of the first, and nothing runs once the
\* process has crashed.  (The frames of the second instance have the stride
\* its table was built with, so its own filter_frame reads inside them.)
NextChain ==
    \/ Next
    \/ PeerInitDict
    \/ PeerConfigProps
    \/ PeerFilterFrame
    \/ PeerUninit

SpecChain == InitChain /\ [][NextChain]_vars

\* the bytes filter_frame stores in a frame o from the table of context c
FrameFromTable(c, outl, o) ==
    filter_frame(heap[c.inv_cache].data, o.in, outl, o.linesize).data

\* one handler of one instance leaves the buffer context c points to as it was
BufferKept(c) == c.inv_cache # 0 => heap'[c.inv_cache] = heap[c.inv_cache]

\* C12: the cache belongs to the instance.  Of two instances with different
\* configurations in one graph, the frame each filter_frame passes on is the
\* one its own table gives, and no handler of one instance (init_dict,
\* config_props, filter_frame, uninit) changes or frees the table of the other.
C12_OwnTable ==
    /\ [](out # <<>> => out[1].data = FrameFromTable(ctx, outlink, out[1]))
    /\ [](peer.out # <<>> =>
              peer.out[1].data = FrameFromTable(peer.ctx, peer.outlink, peer.out[1]))
    /\ [][/\ peer' = peer => BufferKept(peer.ctx)
          /\ peer' # peer => BufferKept(ctx)]_vars

\* both instances have a table, the tables differ, each has passed on a frame,
\* and the first instance was configured again after the second was
C12_Witness ==
    /\ pc = "configured"
    /\ peer.pc = "configured"
    /\ out # <<>>
    /\ peer.out # <<>>
    /\ heap[ctx.inv_cache].data # heap[peer.ctx.inv_cache].data
    /\ ctx.inv_cache > peer.ctx.inv_cache

\* C13: a frame whose row stride differs from the stride the table was built
\* with is still sampled at the intended source pixel: the byte stored for a
\* non-sentinel entry is the frame's byte at the entry's row, column and
\* channel, the row being found with the frame's own stride.
C13_StrideIndependent ==
    out # <<>> =>
        LET o == out[1]
            jlimit == outlink.w * NUM_CHANNELS
            built == heap[ctx.inv_cache].from.in_linesize
        IN \A i \in 0..(outlink.h - 1), j \in 0..(jlimit - 1) :
              LET entry == Table[i * jlimit + j + 1]
              IN entry # Sentinel =>
                    o.data[i * o.linesize + j + 1]
                        = FrameByte(o.in, (entry \div built) * o.in.linesize
                                          + (entry % built))

\* the entry the loops of one eye store for a destination pixel and channel
EntryOfEye(b, eye_count, i, j, channel) ==
    LET src == SourcePixel(b, eye_count, i, j, channel)
    IN IF InSource(b, src[1], src[2])
       THEN SourceOffset(b, eye_count, src[1], src[2], channel)
       ELSE Sentinel

\* the source column of a table entry
ColumnOfEntry(b, entry) == (entry % b.in_linesize) \div NUM_CHANNELS

\* the table entry of destination row i, column c of the whole output
EntryAt(b, table, i, c, channel) ==
    table[(i * b.out_w + c) * NUM_CHANNELS + channel + 1]

ScenarioB(b) == b.left_eye_only # 0 /\ b.swap_eyes = 0 /\ b.mono_input = 0

Swapped(b) == [b EXCEPT !.swap_eyes = 1 - b.swap_eyes]

\* C15 as stated: with mono_input = 1 every entry of a built table that is not
\* the sentinel refers to a source column in [0, in_w/2).
C15_MonoReadsFirstHalf ==
    \A k \in DOMAIN heap :
        (heap[k].complete /\ heap[k].from.mono_input # 0) =>
            \A n \in DOMAIN heap[k].data :
                heap[k].data[n] # Sentinel
                    => ColumnOfEntry(heap[k].from, heap[k].data[n])
                         \in 0..(heap[k].from.in_w \div 2 - 1)

\* C15: with mono_input = 1 the one eye view is the whole input frame: for
\* both destination eyes, with swap_eyes 0 and 1 alike, every entry of a built
\* table config_props builds is the entry computed from source eye 0 with the
\* full input width as the eye's width, the same entry the other value of
\* swap_eyes gives, and every entry that is not the sentinel refers to a source
\* column in [0, in_w).
C15_MonoReadsWholeWidth ==
    [][(pc = "filled" /\ pc' = "configured" /\ build[1].mono_input # 0) =>
          \A eye_count \in EyesBuilt(build[1]), i \in 0..(build[1].out_h - 1),
             j \in 0..(EyeColumns(build[1]) - 1), channel \in 0..(NUM_CHANNELS - 1) :
              \E entry \in {heap'[ctx.inv_cache].data[
                                output_idx(build[1], eye_count, i, j, channel) + 1]} :
                  /\ entry = EntryOfEye(Swapped(build[1]), eye_count, i, j, channel)
                  /\ entry # Sentinel
                       => ColumnOfEntry(build[1], entry) \in 0..(build[1].in_w - 1)]_vars

\* a table built with mono_input and swap_eyes has, in the half of the second
\* destination eye, an entry of a source column of the input's second half
C15_Witness ==
    /\ pc = "configured"
    /\ heap[ctx.inv_cache].from.mono_input # 0
    /\ heap[ctx.inv_cache].from.swap_eyes # 0
    /\ heap[ctx.inv_cache].from.left_eye_only = 0
    /\ \E i \in 0..(outlink.h - 1), c \in (outlink.w \div 2)..(outlink.w - 1) :
          /\ EntryAt(heap[ctx.inv_cache].from, Table, i, c, 0) # Sentinel
          /\ ColumnOfEntry(heap[ctx.inv_cache].from,
                           EntryAt(heap[ctx.inv_cache].from, Table, i, c, 0))
               >= inlink.w \div 2

(***************************************************************************)
(* single calls of the builder's functions, at the sizes of real video     *)
(***************************************************************************)

\* the build input config_props has when the filter with the options o is
\* configured on an input link inl, and the output takes the input's size
BuildOf(o, inl, pf) ==
    config_props_setup(init_dict(o, NoFile, "accepted").ctx, inl,
                       [w |-> 0, h |-> 0], "none", PoolLinesize(pf, inl.w), 0,
                       pf).build[1]

\* unwarpvr=1920:1080:eye_relief_dial=3 on RiftDK2 video (Scenario A), and the
\* same on the other device curves
ScenarioA == [Defaults EXCEPT !.eye_relief_dial = 3]
DeviceOptions ==
    {ScenarioA, [ScenarioA EXCEPT !.device = "RiftDK1"],
     [ScenarioA EXCEPT !.device = "RiftDK1", !.sdkversion = "0.4.2"]}

\* the native size of the RiftDK2, and sizes that far exceed the native sizes
\* of the devices (Scenario C): twice the RiftDK2's 1920x1080, which is also
\* three times the RiftDK1's width, and four times the RiftDK1's 1280x800
NativeSize == [w |-> 1920, h |-> 1080]
LargeSize == [w |-> 3840, h |-> 2160]
HugeSize == [w |-> 5120, h |-> 3200]

\* a destination pixel of one eye's range, and one channel of it
Pixel(eye_count, i, j, channel) ==
    [eye_count |-> eye_count, i |-> i, j |-> j, channel |-> channel]

\* the centre pixel of each eye
CentrePixels(b) ==
    {<<Pixel(eye_count, b.out_h \div 2, b.out_w \div 4, channel)>> :
        eye_count \in 0..(NUM_EYES - 1), channel \in 0..(NUM_CHANNELS - 1)}

\* the four corners of each eye's range
CornerPixels(b) ==
    {<<Pixel(eye_count, i, j, channel)>> :
        eye_count \in 0..(NUM_EYES - 1), i \in {0, b.out_h - 1},
        j \in {0, EyeColumns(b) - 1}, channel \in 0..(NUM_CHANNELS - 1)}

\* Column j of eye 1 with the column of eye 0 at which ndcx has the opposite
\* sign: ndcx is -1 + 2*j/N on N = EyeColumns columns, so the column is N - j.
MirrorRows(b) == {0, b.out_h \div 4, b.out_h \div 2, b.out_h - 1}
MirrorColumns(b) ==
    {1, EyeColumns(b) \div 4, EyeColumns(b) \div 2 - 1, EyeColumns(b) \div 2,
     EyeColumns(b) \div 2 + 1, EyeColumns(b) - 1}
MirrorPairs(b) ==
    {<<Pixel(1, i, j, channel), Pixel(0, i, EyeColumns(b) - j, channel)>> :
        i \in MirrorRows(b), j \in MirrorColumns(b),
        channel \in 0..(NUM_CHANNELS - 1)}

\* the call of the loop body for some pixels of one build
PixelProbe(scenario, b, pixels) ==
    [fn |-> "pixels", scenario |-> scenario, b |-> b, pixels |-> pixels,
     done |-> FALSE, entries |-> <<>>]

PixelProbes(pf) ==
    {PixelProbe("A", BuildOf(ScenarioA, NativeSize, pf), px) :
        px \in CentrePixels(BuildOf(ScenarioA, NativeSize, pf))
                 \cup MirrorPairs(BuildOf(ScenarioA, NativeSize, pf))}
    \cup UNION {{PixelProbe("C", BuildOf(os[1], os[2], pf), px) :
                    px \in CornerPixels(BuildOf(os[1], os[2], pf))} :
                os \in DeviceOptions \X {LargeSize, HugeSize}}

\* the entries config_props stores for the pixels of a probe
ProbePixels ==
    /\ probe # <<>>
    /\ probe.fn = "pixels"
    /\ ~probe.done
    /\ probe' = [probe EXCEPT
                    !.done = TRUE,
                    !.entries = [n \in DOMAIN probe.pixels |->
                                    EntryOfEye(probe.b, probe.pixels[n].eye_count,
                                               probe.pixels[n].i, probe.pixels[n].j,
                                               probe.pixels[n].channel)]]
    /\ UNCHANGED <<platform, opts, ctx, consulted, inlink, outlink, heap, build,
                   out, pc, ret, budget, peer>>

\* the coefficient sets and ranges of the device switch
DeviceCurves ==
    {DeviceProfile("RiftDK1", "0.2.5c", DefaultEyeReliefDial),
     DeviceProfile("RiftDK1", "0.4.2", DefaultEyeReliefDial),
     DeviceProfile("RiftDK2", "0.4.2", DefaultEyeReliefDial),
     DeviceProfile("RiftDK2", "0.4.2", 0)}

\* The function takes any equation with any coefficients: K[0..3] of each
\* device also as the coefficients of the two polynomial forms.
FunctionCurves ==
    DeviceCurves
      \cup {[d EXCEPT !.Eqn = Eqn] :
               d \in DeviceCurves, Eqn \in {Distortion_Poly4, Distortion_RecipPoly4}}

\* values of CA1 beside the one of the device's channel
OtherCA1 == {Zero, Dec(2, 2), FNeg(Dec(15, 3))}

\* squared radii from zero to the edge of the lens
RsqSamples ==
    {Zero, Dec(1, 6), Dec(5, 6), Dec(98, 7), Dec(2, 5), Dec(1, 4), Dec(1, 3),
     Dec(1, 2), Dec(1, 1), Half, One, Dec(15, 1)}

\* one call of DistortionFnScaleRadiusSquared or of its inverse
CurveProbe(fn, d, CA0v, CA1v, rsq) ==
    [fn |-> fn, Eqn |-> d.Eqn, K |-> d.K, MaxR |-> d.MaxR, CA0 |-> CA0v,
     CA1 |-> CA1v, rsq |-> rsq, done |-> FALSE, value |-> Zero]

\* the calls at the lens centre, with any CA1
ScaleProbesOf(d) ==
    {CurveProbe("scale", d, CA0([d |-> d], channel), ca1, Zero) :
        channel \in 0..(NUM_CHANNELS - 1),
        ca1 \in OtherCA1 \cup {d.ChromaticAberration[2], d.ChromaticAberration[4]}}
ScaleProbes == UNION {ScaleProbesOf(d) : d \in FunctionCurves}

\* the calls the reverse loop makes: a device's curve and a channel's pair
InvProbes ==
    {CurveProbe("inv", d, CA0([d |-> d], channel), CA1([d |-> d], channel), rsq) :
        d \in DeviceCurves, channel \in 0..(NUM_CHANNELS - 1), rsq \in RsqSamples}

ProbeScale ==
    /\ probe # <<>>
    /\ probe.fn = "scale"
    /\ ~probe.done
    /\ probe' = [probe EXCEPT
                    !.done = TRUE,
                    !.value = DistortionFnScaleRadiusSquared(
                                  probe.Eqn, probe.K, probe.MaxR, probe.CA0,
                                  probe.CA1, probe.rsq)]
    /\ UNCHANGED <<platform, opts, ctx, consulted, inlink, outlink, heap, build,
                   out, pc, ret, budget, peer>>

ProbeInv ==
    /\ probe # <<>>
    /\ probe.fn = "inv"
    /\ ~probe.done
    /\ probe' = [probe EXCEPT
                    !.done = TRUE,
                    !.value = DistortionFnScaleRadiusSquaredInv(
                                  probe.Eqn, probe.K, probe.MaxR, probe.CA0,
                                  probe.CA1, probe.rsq)]
    /\ UNCHANGED <<platform, opts, ctx, consulted, inlink, outlink, heap, build,
                   out, pc, ret, budget, peer>>

InitProbe ==
    /\ platform \in Platforms
    /\ opts = ScenarioA
    /\ ctx = opts
    /\ consulted = <<>>
    /\ inlink = [w |-> 0, h |-> 0]
    /\ outlink = [w |-> 0, h |-> 0]
    /\ heap = <<>>
    /\ build = <<>>
    /\ out = <<>>
    /\ pc = "created"
    /\ ret = ""
    /\ budget = 0
    /\ peer = <<>>
    /\ probe \in PixelProbes(platform) \cup ScaleProbes \cup InvProbes

NextProbe ==
    \/ ProbePixels
    \/ ProbeScale
    \/ ProbeInv

SpecProbe == InitProbe /\ [][NextProbe]_vars

\* the source row and column an entry of the probe's build refers to
RowOfEntry(b, entry) == entry \div b.in_linesize

\* C16: in Scenario A the centre pixel of each eye has an entry, and the entry
\* refers to the source pixel at the centre of that eye's half of the frame,
\* within one pixel.
C16_CentreMaps ==
    (probe.fn = "pixels" /\ probe.done /\ probe.scenario = "A"
       /\ Len(probe.pixels) = 1)
    => /\ probe.entries[1] # Sentinel
       /\ RowOfEntry(probe.b, probe.entries[1]) - probe.b.in_h \div 2 \in -1..1
       /\ ColumnOfEntry(probe.b, probe.entries[1])
            - (probe.pixels[1].eye_count * (probe.b.in_w \div 2) + probe.b.in_w \div 4)
            \in -1..1

\* C17 as stated: in Scenario C (an output of at least twice the device's
\* native size, all scale factors 1) the entries of the four corner pixels of
\* each eye are the sentinel, for all three channels and every device curve.
C17_CornersBlack ==
    (probe.fn = "pixels" /\ probe.done /\ probe.scenario = "C")
    => probe.entries[1] = Sentinel

\* the device curve and output size have the corners of the output outside the
\* source: the RiftDK2 from twice its native size, the RiftDK1 with the curve
\* of SDK 0.2.5c from four times its native size
CornersLeaveSource(b) ==
    \/ b.d.DeviceResX = NativeSize.w
    \/ b.d.Eqn = Distortion_Poly4 /\ b.out_w = HugeSize.w

\* C17: in Scenario C on the RiftDK2 (output at least twice the native size)
\* and on the RiftDK1 with the polynomial curve (output four times the native
\* size), all scale factors 1, the entries of the four corner pixels of each
\* eye are the sentinel, for all three channels.
C17_CornersBlackOnDevices ==
    (probe.fn = "pixels" /\ probe.done /\ probe.scenario = "C"
       /\ CornersLeaveSource(probe.b))
    => probe.entries[1] = Sentinel

C17_Witness ==
    /\ probe.fn = "pixels" /\ probe.done /\ probe.scenario = "C"
    /\ probe.b.out_w = LargeSize.w /\ probe.b.d.DeviceResX = NativeSize.w
    /\ probe.pixels[1].i = probe.b.out_h - 1
    /\ probe.pixels[1].j = EyeColumns(probe.b) - 1
    /\ probe.pixels[1].eye_count = 1
    /\ probe.entries[1] = Sentinel

\* the column of an entry inside its source eye's half
ColumnInHalf(b, entry) == ColumnOfEntry(b, entry) % in_width_per_eye(b)

\* the source eye and the channel of an entry
EyeOfEntry(b, entry) == ColumnOfEntry(b, entry) \div in_width_per_eye(b)
ChannelOfEntry(b, entry) == (entry % b.in_linesize) % NUM_CHANNELS

\* C18: with the default configuration the table of eye 1 is the horizontal
\* mirror image of the table of eye 0.  The entry of eye 1 at column j and the
\* entry of eye 0 at the column N - j, where ndcx has the opposite sign, are both
\* the sentinel or refer to the same row and channel and to mirrored columns of
\* the two source halves; one pixel of difference is allowed for the rounding
\* of the float arithmetic.
C18_MirrorImage ==
    (probe.fn = "pixels" /\ probe.done /\ Len(probe.pixels) = 2)
    => /\ probe.entries[1] = Sentinel <=> probe.entries[2] = Sentinel
       /\ probe.entries[1] # Sentinel
          => /\ EyeOfEntry(probe.b, probe.entries[1]) = 1
             /\ EyeOfEntry(probe.b, probe.entries[2]) = 0
             /\ ChannelOfEntry(probe.b, probe.entries[1])
                  = ChannelOfEntry(probe.b, probe.entries[2])
             /\ RowOfEntry(probe.b, probe.entries[1])
                  - RowOfEntry(probe.b, probe.entries[2]) \in -1..1
             /\ ColumnInHalf(probe.b, probe.entries[1])
                  + ColumnInHalf(probe.b, probe.entries[2])
                  - (in_width_per_eye(probe.b) - 1) \in -1..1

\* ScaleAt(r)^2 * r for the r an inverse probe returned: the distorted squared
\* radius the loop of the inverse compares with its target
RoundTrip(p) ==
    CHOOSE back \in {FMul(FMul(scale, scale), p.value) :
                        scale \in {DistortionFnScaleRadiusSquared(
                                       p.Eqn, p.K, p.MaxR, p.CA0, p.CA1, p.value)}} : TRUE

\* |a - b| <= tol * b
FAbs(x) == IF IsNaN(x) THEN NaN ELSE <<0, x[2], x[3]>>
WithinRelative(a, b, tol) ==
    /\ ~IsNaN(a)
    /\ ~FGt(FAbs(FSub(a, b)), FMul(tol, b))

\* C19 as stated: for every target from zero up, the value the inverse returns
\* maps back to the target within the relative tolerance 1e-3.
C19_TrueInverse ==
    (probe.fn = "inv" /\ probe.done)
    => WithinRelative(RoundTrip(probe), probe.rsq, Dec(1, 3))

\* C19: for every target of at least 2e-5, on every device curve and with every
\* channel's chromatic pair, r = Invert(rsq) satisfies ScaleAt(r)^2 * r = rsq
\* within the relative tolerance 1e-3.  For the smaller targets, zero included,
\* where the search ends at its floor, r is positive and ScaleAt(r)^2 * r is
\* within 1e-5 of the target in absolute terms.
C19_InverseAboveFloor ==
    (probe.fn = "inv" /\ probe.done)
    => IF FLt(probe.rsq, Dec(2, 5))
       THEN /\ FGt(probe.value, Zero)
            /\ FLt(FAbs(FSub(RoundTrip(probe), probe.rsq)), HighFloor)
       ELSE WithinRelative(RoundTrip(probe), probe.rsq, Dec(1, 3))

C19_Witness ==
    /\ probe.fn = "inv" /\ probe.done
    /\ probe.Eqn = Distortion_CatmullRom10
    /\ probe.rsq = Dec(15, 1)
    /\ ~IsZero(probe.CA1)
    /\ FLt(probe.value, One) /\ FGt(probe.value, Half)
    /\ WithinRelative(RoundTrip(probe), probe.rsq, Dec(1, 3))

\* C20 as stated: at rsq = 0 the function returns the curve's centre value, 1.0
\* for CatmullRom10 and K[0] for Poly4 and RecipPoly4, times 1 + CA0, whatever
\* CA1 is.
C20_CentreValueK0 ==
    (probe.fn = "scale" /\ probe.done /\ IsZero(probe.rsq))
    => probe.value
         = FMul(IF probe.Eqn = Distortion_CatmullRom10 THEN One ELSE probe.K[1],
                FAdd(One, probe.CA0))

\* C20: at rsq = 0 the function returns the curve's centre value times 1 + CA0,
\* whatever CA1 is: the centre value is 1.0 for CatmullRom10, K[0] for Poly4 and
\* 1 / K[0] for RecipPoly4.
C20_CentreValue ==
    (probe.fn = "scale" /\ probe.done /\ IsZero(probe.rsq))
    => probe.value
         = FMul(IF probe.Eqn = Distortion_CatmullRom10 THEN One
                ELSE IF probe.Eqn = Distortion_Poly4 THEN probe.K[1]
                ELSE FDiv(One, probe.K[1]),
                FAdd(One, probe.CA0))

C20_Witness ==
    /\ probe.fn = "scale" /\ probe.done /\ IsZero(probe.rsq)
    /\ probe.Eqn = Distortion_RecipPoly4
    /\ probe.K[1] # One
    /\ ~IsZero(probe.CA0) /\ ~IsZero(probe.CA1)
    /\ probe.value = FMul(FDiv(One, probe.K[1]), FAdd(One, probe.CA0))
    /\ probe.value # FMul(probe.K[1], FAdd(One, probe.CA0))

(***************************************************************************)
(* the loop of DistortionFnScaleRadiusSquaredInv, one pass at a time       *)
(***************************************************************************)

\* targets up to the corners of an output larger than the device, and beyond
\* the value the curve takes at the upper end of the search
SearchTargets == RsqSamples \cup {Dec(69, 1), F(100), F(10000)}

\* the function's locals at the loop test, before the first pass
SearchProbe(d, channel, rsq) ==
    [fn |-> "search", Eqn |-> d.Eqn, K |-> d.K, MaxR |-> d.MaxR,
     CA0 |-> CA0([d |-> d], channel), CA1 |-> CA1([d |-> d], channel), rsq |-> rsq,
     low_guess |-> Zero, high_guess |-> HighGuess, halvings |-> 0,
     exit |-> "", done |-> FALSE, value |-> Zero]

SearchProbes ==
    {SearchProbe(d, channel, rsq) :
        d \in DeviceCurves, channel \in 0..(NUM_CHANNELS - 1), rsq \in SearchTargets}

InitSearch ==
    /\ platform \in Platforms
    /\ opts = ScenarioA
    /\ ctx = opts
    /\ consulted = <<>>
    /\ inlink = [w |-> 0, h |-> 0]
    /\ outlink = [w |-> 0, h |-> 0]
    /\ heap = <<>>
    /\ build = <<>>
    /\ out = <<>>
    /\ pc = "created"
    /\ ret = ""
    /\ budget = 0
    /\ peer = <<>>
    /\ probe \in SearchProbes

\* low_guess and high_guess after the pass that starts at the probe's guesses
SearchPass(p) ==
    BisectNext(p.rsq, p.low_guess, p.high_guess, BisectMid(p.low_guess, p.high_guess),
               DistortionFnScaleRadiusSquared(p.Eqn, p.K, p.MaxR, p.CA0, p.CA1,
                                              BisectMid(p.low_guess, p.high_guess)))

\* one pass of the while loop
SearchStep ==
    /\ ~probe.done
    /\ BisectContinues(probe.low_guess, probe.high_guess)
    /\ \E guess \in {SearchPass(probe)} :
          probe' = [probe EXCEPT !.low_guess = guess[1], !.high_guess = guess[2],
                                 !.halvings = @ + 1]
    /\ UNCHANGED <<platform, opts, ctx, consulted, inlink, outlink, heap, build,
                   out, pc, ret, budget, peer>>

\* the loop test fails and the function returns the midpoint; exit records
\* which of the two tests failed
SearchReturn ==
    /\ ~probe.done
    /\ ~BisectContinues(probe.low_guess, probe.high_guess)
    /\ probe' = [probe EXCEPT
                    !.done = TRUE,
                    !.exit = IF FGt(probe.high_guess, HighFloor) THEN "tolerance"
                             ELSE IF FGt(FDiv(FSub(probe.high_guess, probe.low_guess),
                                              probe.low_guess), RelTolerance)
                                  THEN "floor"
                             ELSE "both",
                    !.value = BisectMid(probe.low_guess, probe.high_guess)]
    /\ UNCHANGED <<platform, opts, ctx, consulted, inlink, outlink, heap, build,
                   out, pc, ret, budget, peer>>

NextSearch ==
    \/ SearchStep
    \/ SearchReturn

SpecSearch == InitSearch /\ [][NextSearch]_vars

\* a <= b for floats that are not NaN
FLe(a, b) == ~IsNaN(a) /\ ~IsNaN(b) /\ ~FGt(a, b)

\* C21: the search ends after a bounded number of halvings (at most 40) for
\* every target rsq >= 0; when it ends the relative width (high - low) / low is
\* at most 1e-4 or high is at most 1e-5; for the target 0 low stays 0 for the
\* whole search and the loop ends through the floor test only; and throughout
\* 0 <= low <= high <= the initial upper bound.
C21_SearchTerminates ==
    /\ probe.halvings <= 40
    /\ FLe(Zero, probe.low_guess)
    /\ FLe(probe.low_guess, probe.high_guess)
    /\ FLe(probe.high_guess, HighGuess)
    /\ probe.done
       => \/ FLe(FDiv(FSub(probe.high_guess, probe.low_guess), probe.low_guess),
                 RelTolerance)
          \/ FLe(probe.high_guess, HighFloor)
    /\ IsZero(probe.rsq)
       => /\ IsZero(probe.low_guess)
          /\ probe.done => probe.exit = "floor"
    /\ probe.done
       => probe.value = DistortionFnScaleRadiusSquaredInv(
                            probe.Eqn, probe.K, probe.MaxR, probe.CA0, probe.CA1,
                            probe.rsq)

C21_Witness ==
    /\ probe.done
    /\ IsZero(probe.rsq)
    /\ probe.exit = "floor"
    /\ probe.halvings = 20
    /\ IsZero(probe.low_guess)

\* C22 as stated: the search of a reverse (unwarp) build runs over [0, 1.5] and
\* the value it returns lies in that range.
C22_SmallBoundForUnwarp ==
    /\ FLe(probe.high_guess, Dec(15, 1))
    /\ probe.done => FLe(probe.value, Dec(15, 1))

\* C22: the search, which only the reverse (unwarp) loop calls, starts with
\* low = 0 and high = 10.0 and the value it returns lies in [0, 10].
C22_SearchRange ==
    /\ probe.halvings = 0 => IsZero(probe.low_guess) /\ probe.high_guess = F(10)
    /\ probe.done => FLe(Zero, probe.value) /\ FLe(probe.value, F(10))

C22_Witness ==
    /\ probe.done
    /\ probe.Eqn = Distortion_CatmullRom10
    /\ probe.rsq = Dec(69, 1)
    /\ FGt(probe.value, Dec(15, 1))
    /\ FLt(probe.value, F(10))

\* the source half the claim names for destination eye eye_count
HalfOfEye(b, eye_count) == IF b.swap_eyes = 0 THEN eye_count ELSE 1 - eye_count

\* C23: with a stereo source (mono_input = 0, left_eye_only = 0) every entry
\* that is not the sentinel, stored for destination eye e, refers to a source
\* column of source half e when swap_eyes = 0 and of half 1 - e when
\* swap_eyes = 1: a column in [half * (in_w / 2), (half + 1) * (in_w / 2)).
C23_SwapReadsOtherHalf ==
    [][(pc = "filled" /\ pc' = "configured" /\ build[1].mono_input = 0
          /\ build[1].left_eye_only = 0) =>
          \A eye_count \in 0..(NUM_EYES - 1), i \in 0..(build[1].out_h - 1),
             j \in 0..(build[1].out_w \div 2 - 1), channel \in 0..(NUM_CHANNELS - 1) :
              \E entry \in {heap'[ctx.inv_cache].data[
                                output_idx(build[1], eye_count, i, j, channel) + 1]} :
                  entry # Sentinel
                    => /\ ColumnOfEntry(build[1], entry)
                            >= HalfOfEye(build[1], eye_count) * (build[1].in_w \div 2)
                       /\ ColumnOfEntry(build[1], entry)
                            < (HalfOfEye(build[1], eye_count) + 1)
                                * (build[1].in_w \div 2)]_vars

\* a stereo table built with swap_eyes has, in the left destination half, an
\* entry of a source column of the right source half
C23_Witness ==
    /\ pc = "configured"
    /\ heap[ctx.inv_cache].from.mono_input = 0
    /\ heap[ctx.inv_cache].from.swap_eyes # 0
    /\ heap[ctx.inv_cache].from.left_eye_only = 0
    /\ \E i \in 0..(outlink.h - 1), c \in 0..(outlink.w \div 2 - 1) :
          /\ EntryAt(heap[ctx.inv_cache].from, Table, i, c, 0) # Sentinel
          /\ ColumnOfEntry(heap[ctx.inv_cache].from,
                           EntryAt(heap[ctx.inv_cache].from, Table, i, c, 0))
               >= inlink.w \div 2

\* the eye that decides the sign of the offset: the source eye after the swap
\* and mono remapping in the reverse direction, the destination eye in the
\* forward direction
DecidingEye(b, eye_count) ==
    IF b.forward_warp # 0 THEN eye_count
    ELSE IF b.mono_input # 0 THEN 0
    ELSE IF b.swap_eyes # 0 THEN 1 - eye_count
    ELSE eye_count

\* C24: the offset the eye loop uses for an eye is +LensCenterXOffset when the
\* deciding eye is eye 0 (the left one) and -LensCenterXOffset when it is eye 1;
\* with a stereo source (mono_input = 0, left_eye_only = 0) the two destination
\* eyes get offsets of opposite sign.
C24_OffsetSign ==
    pc = "filled"
    => /\ \A eye_count \in EyesBuilt(build[1]) :
             lensCenterXOffsetEye(build[1], eye_count)
               = IF DecidingEye(build[1], eye_count) = 0
                 THEN build[1].d.LensCenterXOffset
                 ELSE FNeg(build[1].d.LensCenterXOffset)
       /\ (build[1].mono_input = 0 /\ build[1].left_eye_only = 0)
          => /\ lensCenterXOffsetEye(build[1], 1)
                  = FNeg(lensCenterXOffsetEye(build[1], 0))
             /\ lensCenterXOffsetEye(build[1], 1)[1]
                  # lensCenterXOffsetEye(build[1], 0)[1]
             /\ ~IsZero(lensCenterXOffsetEye(build[1], 0))

C24_Witness ==
    /\ pc = "filled"
    /\ build[1].forward_warp = 0
    /\ build[1].swap_eyes # 0
    /\ build[1].mono_input = 0
    /\ build[1].left_eye_only = 0
    /\ lensCenterXOffsetEye(build[1], 0) = FNeg(build[1].d.LensCenterXOffset)
    /\ lensCenterXOffsetEye(build[1], 1) = build[1].d.LensCenterXOffset

\* C25: once init_dict has succeeded the eye relief dial of the context is an
\* integer in 0..10, whether it came from the option, from the default 3 or from
\* the EyeReliefDial field of the profile.
C25_DialInRange ==
    pc \in {"inited", "allocated", "filled", "configured", "config_failed"}
    => ctx.eye_relief_dial \in 0..10

(***************************************************************************)
(* the passes of the eye loops taken in any order                          *)
(***************************************************************************)

\* the passes of the j loop that one build makes: one destination pixel each
PassesOf(b) ==
    {[eye_count |-> eye_count, i |-> i, j |-> j] :
        eye_count \in EyesBuilt(b), i \in 0..(b.out_h - 1),
        j \in 0..(EyeColumns(b) - 1)}

\* the body of the j loop for the pixel p: the channel loop and its stores
PassOf(b, p, cache) ==
    BuildRow(b, p.eye_count, (p.i * EyeColumns(b) + p.j) * NUM_CHANNELS,
             (p.i * EyeColumns(b) + p.j + 1) * NUM_CHANNELS, cache)

\* builds of a 4x2 table in both directions
OrderOptions == {Base, [Base EXCEPT !.forward_warp = 1, !.ppd = SmallPpd]}
OrderSize == [w |-> 4, h |-> 2]

\* the table after the sentinel loop and the passes still to run; sequential is
\* the table the loops of config_props leave in their own order
OrderProbe(b) ==
    [fn |-> "order", b |-> b, table |-> SentinelTable(b), pending |-> PassesOf(b),
     sequential |-> BuildCacheFrom(b, SentinelTable(b))]

InitOrder ==
    /\ platform \in Platforms
    /\ opts \in OrderOptions
    /\ ctx = opts
    /\ consulted = <<>>
    /\ inlink = [w |-> 0, h |-> 0]
    /\ outlink = [w |-> 0, h |-> 0]
    /\ heap = <<>>
    /\ build = <<>>
    /\ out = <<>>
    /\ pc = "created"
    /\ ret = ""
    /\ budget = 0
    /\ peer = <<>>
    /\ probe = OrderProbe(BuildOf(opts, OrderSize, platform))

\* any one of the passes still to run, with the loop body of config_props
OrderStep ==
    /\ \E p \in probe.pending :
          probe' = [probe EXCEPT
                       !.table = PassOf(probe.b, p, probe.table),
                       !.pending = @ \ {p}]
    /\ UNCHANGED <<platform, opts, ctx, consulted, inlink, outlink, heap, build,
                   out, pc, ret, budget, peer>>

NextOrder == OrderStep

SpecOrder == InitOrder /\ [][NextOrder]_vars

\* the slot of the pixel p and one channel, as a table index
SlotOf(b, p, channel) == output_idx(b, p.eye_count, p.i, p.j, channel) + 1

\* C26: with the passes taken in any order, the slots of a pixel hold the
\* sentinel until its pass has run and from then on the entries the sequential
\* build leaves there, whatever ran before or runs after; when all passes have
\* run the table is the one of the sequential build.
C26_OrderIndependent ==
    /\ \A p \in PassesOf(probe.b), channel \in 0..(NUM_CHANNELS - 1) :
          probe.table[SlotOf(probe.b, p, channel)]
            = IF p \in probe.pending THEN Sentinel
              ELSE probe.sequential[SlotOf(probe.b, p, channel)]
    /\ probe.pending = {} => probe.table = probe.sequential

C26_Witness ==
    /\ probe.pending = {}
    /\ probe.table = probe.sequential
    /\ \E k \in DOMAIN probe.table : probe.table[k] # Sentinel
    /\ \E k \in DOMAIN probe.table : probe.table[k] = Sentinel

(***************************************************************************)
(* single calls of EvalCatmullRom10Spline                                  *)
(***************************************************************************)

\* scaledValFloor after the clamp
SplineFloor(scaledVal) ==
    fmaxf(Zero, fminf(FromInt(NumSegments - 1), floorf(scaledVal)))

\* the indices of K the general case of the switch reads
CoefficientsReadOfDefault(k) == {k - 1, k, k + 1, k + 2}

\* the indices of K the switch reads for the segment k
CoefficientsRead(k) ==
    IF k = 0 THEN {0, 1, 2}
    ELSE IF k = NumSegments - 2 THEN {NumSegments - 2, NumSegments - 1}
    ELSE IF k = NumSegments - 1 THEN {NumSegments - 1, NumSegments - 2}
    ELSE {k - 1, k, k + 1, k + 2}

\* scaled radii in quarters: negative, fractional, at the knots, and beyond the
\* final knot
Quarters == (-8..60) \cup {400}
Quarter(n) == FDiv(F(n), F(4))

SplineProbe(K, n) ==
    [fn |-> "spline", K |-> K, n |-> n, scaledVal |-> Quarter(n), done |-> FALSE,
     k |-> 0, t |-> Zero, reads |-> {}, value |-> Zero]

InitSpline ==
    /\ platform \in Platforms
    /\ opts = ScenarioA
    /\ ctx = opts
    /\ consulted = <<>>
    /\ inlink = [w |-> 0, h |-> 0]
    /\ outlink = [w |-> 0, h |-> 0]
    /\ heap = <<>>
    /\ build = <<>>
    /\ out = <<>>
    /\ pc = "created"
    /\ ret = ""
    /\ budget = 0
    /\ peer = <<>>
    /\ probe \in {SplineProbe(K, n) : K \in {K_DK2, K_DK1_042}, n \in Quarters}

\* one call: k, t and the coefficients read on the way to the result
ProbeSpline ==
    /\ ~probe.done
    /\ probe' = [probe EXCEPT
                    !.done = TRUE,
                    !.k = ClampedToInt(SplineFloor(probe.scaledVal)),
                    !.t = FSub(probe.scaledVal, SplineFloor(probe.scaledVal)),
                    !.reads = CoefficientsRead(
                                  ClampedToInt(SplineFloor(probe.scaledVal))),
                    !.value = EvalCatmullRom10Spline(probe.K, probe.scaledVal)]
    /\ UNCHANGED <<platform, opts, ctx, consulted, inlink, outlink, heap, build,
                   out, pc, ret, budget, peer>>

NextSpline == ProbeSpline

SpecSpline == InitSpline /\ [][NextSpline]_vars

\* clamp(x, lo, hi) of integers
Clamp(x, lo, hi) == IF x < lo THEN lo ELSE IF x > hi THEN hi ELSE x

\* the call used segment k with t = n/4 - k, and returned that segment's value
UsedSegment(k) ==
    /\ probe.k = k
    /\ probe.t = Quarter(probe.n - 4 * k)
    /\ probe.value = SplineStart(probe.K, k, Quarter(probe.n - 4 * k))

\* C27 as stated: the evaluator uses the segment k = clamp(floor(scaledR), 0, 9)
\* with the local parameter t = scaledR - k.
C27_SegmentUpTo9 ==
    probe.done => UsedSegment(Clamp(probe.n \div 4, 0, 9))

\* C27: the evaluator uses the segment k = clamp(floor(scaledR), 0, 10) with the
\* local parameter t = scaledR - k; segment 10 is the straight line beyond the
\* final knot.
C27_SegmentUpTo10 ==
    probe.done => UsedSegment(Clamp(probe.n \div 4, 0, 10))

C27_Witness ==
    /\ probe.done
    /\ probe.n = 43
    /\ probe.k = 10
    /\ probe.t = Quarter(3)
    /\ probe.value # SplineStart(probe.K, 9, Quarter(7))

\* the control values K[0] .. K[10] of a device profile
CoefficientIndices == 0..(NumSegments - 1)

\* inputs that are no number of quarters
NonFinite == {NaN, Inf(0), Inf(1)}

\* C30: for every input value, negative ones and ones far beyond the final knot
\* included, every coefficient EvalCatmullRom10Spline reads has an index within
\* 0..10, the 11 control values of the device profile.
C30_ReadsWithinK ==
    /\ probe.done => /\ probe.reads # {}
                     /\ probe.reads \subseteq CoefficientIndices
                     /\ probe.reads \subseteq {i - 1 : i \in DOMAIN probe.K}
    /\ \A v \in NonFinite :
          CoefficientsRead(ClampedToInt(SplineFloor(v))) \subseteq CoefficientIndices

C30_Witness ==
    /\ probe.done
    /\ probe.n \in {-8, 400}
    /\ probe.k \in {0, NumSegments - 1}
    /\ probe.reads \in {{0, 1, 2}, {NumSegments - 2, NumSegments - 1}}

\* the version the version loop searches for: "default" has been replaced by
\* the first version of the device's row
SearchedVersion(o) ==
    IF o.sdkversion = "default" THEN valid_sdk_versions[DeviceIndex(o.device)][1]
    ELSE o.sdkversion

\* a valid device with a version that is not in the device's row
UnlistedVersion(o) ==
    /\ DeviceIndex(o.device) <= Len(valid_devices)
    /\ \A j \in 1..Len(valid_sdk_versions[DeviceIndex(o.device)]) :
          valid_sdk_versions[DeviceIndex(o.device)][j] # SearchedVersion(o)

\* C28: once init_dict has run on a valid device with an sdkversion that is not
\* in the device's list, it has returned EINVAL without reading past the list's
\* terminator, and no cache is built.
C28_UnlistedVersionRejected ==
    (UnlistedVersion(opts) /\ pc # "created")
        => /\ ret = "EINVAL"
           /\ pc \in {"init_failed", "closed"}
           /\ heap = <<>> /\ ctx.inv_cache = 0

(***************************************************************************)
(* the eye loops of config_props, one destination pixel at a time          *)
(***************************************************************************)

\* builds of even and odd output widths, with both eyes and the left eye only
CoverOptions ==
    {[o EXCEPT !.left_eye_only = l] : o \in OrderOptions, l \in {0, 1}}
CoverSizes == {[w |-> 4, h |-> 2], [w |-> 5, h |-> 2], [w |-> 3, h |-> 2]}

\* the table after the sentinel loop, the eye and the pixel of the eye the
\* loops stand at, and the passes of the j loop made so far
CoverProbe(b) ==
    [fn |-> "cover", b |-> b, table |-> SentinelTable(b), eye_count |-> 0,
     n |-> 0, made |-> {}]

InitCover ==
    /\ platform \in Platforms
    /\ opts \in CoverOptions
    /\ ctx = opts
    /\ consulted = <<>>
    /\ inlink \in CoverSizes
    /\ outlink = [w |-> 0, h |-> 0]
    /\ heap = <<>>
    /\ build = <<>>
    /\ out = <<>>
    /\ pc = "created"
    /\ ret = ""
    /\ budget = 0
    /\ peer = <<>>
    /\ probe = CoverProbe(BuildOf(opts, inlink, platform))

\* the pass of the j loop the loops stand at
CoverPass(p) ==
    [eye_count |-> p.eye_count, i |-> p.n \div EyeColumns(p.b),
     j |-> p.n % EyeColumns(p.b)]

\* the loops have left the eye loop
CoverDone(p) == p.eye_count \notin EyesBuilt(p.b)

\* one pass of the j loop, and the increments of j, i and eye_count behind it
CoverStep ==
    /\ ~CoverDone(probe)
    /\ probe' = [probe EXCEPT
                    !.table = PassOf(probe.b, CoverPass(probe), @),
                    !.made = @ \cup {CoverPass(probe)},
                    !.n = IF probe.n + 1 < probe.b.out_h * EyeColumns(probe.b)
                          THEN probe.n + 1 ELSE 0,
                    !.eye_count = IF probe.n + 1 < probe.b.out_h * EyeColumns(probe.b)
                                  THEN @ ELSE @ + 1]
    /\ UNCHANGED <<platform, opts, ctx, consulted, inlink, outlink, heap, build,
                   out, pc, ret, budget, peer>>

NextCover == CoverStep

SpecCover == InitCover /\ [][NextCover]_vars

\* the destination column of the pass p
ColumnOf(b, p) == (p.eye_count * b.out_w) \div 2 + p.j

\* every index a pass writes is within [0, out_w*out_h*3)
IndicesWithinTable ==
    \A p \in probe.made, channel \in 0..(NUM_CHANNELS - 1) :
        output_idx(probe.b, p.eye_count, p.i, p.j, channel)
            \in 0..(probe.b.out_w * probe.b.out_h * NUM_CHANNELS - 1)

\* no slot is written for two different (eye, row, column, channel) tuples
SlotsDistinct ==
    \A p, q \in probe.made, c, d \in 0..(NUM_CHANNELS - 1) :
        SlotOf(probe.b, p, c) = SlotOf(probe.b, q, d) => p = q /\ c = d

\* the passes that computed the destination pixel of row i and column col
Computing(i, col) ==
    {p \in probe.made : p.i = i /\ ColumnOf(probe.b, p) = col}

\* every destination pixel is computed by exactly one pass, and its slots hold
\* the sentinel only where that pass found the source out of bounds
EveryColumnComputed ==
    \A i \in 0..(probe.b.out_h - 1), col \in 0..(probe.b.out_w - 1) :
        /\ Cardinality(Computing(i, col)) = 1
        /\ \A p \in Computing(i, col), channel \in 0..(NUM_CHANNELS - 1) :
              probe.table[SlotOf(probe.b, p, channel)] = Sentinel
                => \E src \in {SourcePixel(probe.b, p.eye_count, p.i, p.j, channel)} :
                      ~InSource(probe.b, src[1], src[2])

\* C29: every index the build writes is within [0, out_w*out_h*3), no slot is
\* written for two different (eye, row, column, channel) tuples, and after the
\* build every destination column 0..out_w-1 of every row has been computed by
\* exactly one eye, so that a slot holds the sentinel only because its source
\* pixel was out of bounds.
C29_DestinationCovered ==
    /\ IndicesWithinTable
    /\ SlotsDistinct
    /\ CoverDone(probe) => EveryColumnComputed

=============================================================================
